---- MODULE Spec2Model ----
(***************************************************************************)
(* Whiteboard: geometry library, erasure engine, gesture state machine and *)
(* snapshot history of src/App.tsx and src/utils/geometry.ts.              *)
(*                                                                         *)
(* Numbers.  World coordinates and line widths are integers.  A radius     *)
(* lineWidth / 2 is carried doubled (the parameter R2 stands for twice the *)
(* radius), a sampled point of a segment is carried as numerators x, y     *)
(* over a common denominator d, and a squared distance is the record      *)
(* [c, n, pd, l2] standing for (n + c * c / l2) / (pd * pd).  Every        *)
(* comparison of the source is then an exact comparison of integers.       *)
(***************************************************************************)
EXTENDS Integers, Sequences, FiniteSets, TLC

Abs(a) == IF a < 0 THEN -a ELSE a
Min(a, b) == IF a < b THEN a ELSE b
Max(a, b) == IF a > b THEN a ELSE b

None == [some |-> FALSE]
Some(v) == [some |-> TRUE, val |-> v]

Range(s) == {s[i] : i \in 1..Len(s)}

RECURSIVE SeqFilterIds(_, _)
\* strokes.filter(s => !ids.has(s.id))
SeqFilterIds(s, ids) ==
    IF s = <<>> THEN <<>>
    ELSE IF Head(s).id \in ids THEN SeqFilterIds(Tail(s), ids)
         ELSE <<Head(s)>> \o SeqFilterIds(Tail(s), ids)

RECURSIVE SeqKeepIds(_, _)
\* strokes.filter(s => ids.has(s.id))
SeqKeepIds(s, ids) ==
    IF s = <<>> THEN <<>>
    ELSE IF Head(s).id \in ids THEN <<Head(s)>> \o SeqKeepIds(Tail(s), ids)
         ELSE SeqKeepIds(Tail(s), ids)

Pt(px, py) == [x |-> px, y |-> py]

RECURSIVE SortedSeq(_)
SortedSeq(S) ==
    IF S = {} THEN <<>>
    ELSE LET m == CHOOSE x \in S : \A y \in S : x <= y IN <<m>> \o SortedSeq(S \ {m})

IdsOfStrokes(strokes) == {strokes[i].id : i \in 1..Len(strokes)}

\* Math.ceil(Math.sqrt(k)) for an integer k >= 0
CeilSqrt(k) == CHOOSE n \in 0..(k + 1) : n * n >= k /\ (n = 0 \/ (n - 1) * (n - 1) < k)

\* Math.hypot(dx, dy) where it is an integer (one of dx, dy is 0)
Hypot(dx, dy) == IF dy = 0 THEN Abs(dx) ELSE IF dx = 0 THEN Abs(dy) ELSE CeilSqrt(dx * dx + dy * dy)

(***************************************************************************)
(* Geometry library (src/utils/geometry.ts)                                *)
(***************************************************************************)

MinX(points) == CHOOSE m \in {points[i].x : i \in 1..Len(points)} : \A i \in 1..Len(points) : m <= points[i].x
MaxX(points) == CHOOSE m \in {points[i].x : i \in 1..Len(points)} : \A i \in 1..Len(points) : m >= points[i].x
MinY(points) == CHOOSE m \in {points[i].y : i \in 1..Len(points)} : \A i \in 1..Len(points) : m <= points[i].y
MaxY(points) == CHOOSE m \in {points[i].y : i \in 1..Len(points)} : \A i \in 1..Len(points) : m >= points[i].y

Rect(rx, ry, w, h) == [x |-> rx, y |-> ry, width |-> w, height |-> h]

\* getStrokeBounds: None stands for null.  The radius of a circle is exact
\* when its edge point lies on an axis through its center.
getStrokeBounds(stroke) ==
    IF Len(stroke.points) = 0 THEN None
    ELSE IF stroke.tool \in {"rectangle", "line", "triangle", "dashed-line"}
    THEN IF Len(stroke.points) < 2 THEN None
         ELSE LET two == SubSeq(stroke.points, 1, 2)
              IN  Some(Rect(MinX(two), MinY(two), MaxX(two) - MinX(two), MaxY(two) - MinY(two)))
    ELSE IF stroke.tool = "circle"
    THEN IF Len(stroke.points) < 2 THEN None
         ELSE LET center == stroke.points[1]
                  edge   == stroke.points[2]
                  radius == Hypot(edge.x - center.x, edge.y - center.y)
              IN  Some(Rect(center.x - radius, center.y - radius, radius * 2, radius * 2))
    ELSE Some(Rect(MinX(stroke.points), MinY(stroke.points),
                   MaxX(stroke.points) - MinX(stroke.points),
                   MaxY(stroke.points) - MinY(stroke.points)))

UnionRect(a, b) ==
    LET minX == Min(a.x, b.x)
        minY == Min(a.y, b.y)
        maxX == Max(a.x + a.width, b.x + b.width)
        maxY == Max(a.y + a.height, b.y + b.height)
    IN  Rect(minX, minY, maxX - minX, maxY - minY)

RECURSIVE getBoundsFrom(_, _)
getBoundsFrom(strokes, acc) ==
    IF strokes = <<>> THEN acc
    ELSE LET sb == getStrokeBounds(Head(strokes))
         IN  getBoundsFrom(Tail(strokes),
                           IF ~sb.some THEN acc
                           ELSE IF ~acc.some THEN sb
                           ELSE Some(UnionRect(acc.val, sb.val)))

getBounds(strokes) == getBoundsFrom(strokes, None)

\* a broad phase that culls nothing
doRectsIntersectMutCull(r1, r2) == TRUE

doRectsIntersect(r1, r2) ==
    ~(r2.x > r1.x + r1.width
      \/ r2.x + r2.width < r1.x
      \/ r2.y > r1.y + r1.height
      \/ r2.y + r2.height < r1.y)

\* Math.floor(Math.sqrt(k)) for an integer k >= 0
FloorSqrt(k) == CHOOSE n \in 0..k : n * n <= k /\ (n + 1) * (n + 1) > k

\* pDistanceToSegmentSquared for the point (p.x / p.d, p.y / p.d).  The squared
\* distance is (n + c * c / l2) / (pd * pd): to an end of the segment it is
\* n / (pd * pd); to the projection inside the segment it is the squared cross
\* product over l2, which equals the source's squared distance to
\* a + t * (b - a) with t = dot / l2.
pDistanceToSegmentSquared(p, a, b) ==
    LET l2  == (a.x - b.x) * (a.x - b.x) + (a.y - b.y) * (a.y - b.y)
        pax == p.x - p.d * a.x
        pay == p.y - p.d * a.y
        pbx == p.x - p.d * b.x
        pby == p.y - p.d * b.y
        dot == pax * (b.x - a.x) + pay * (b.y - a.y)
        cross == pax * (b.y - a.y) - pay * (b.x - a.x)
    IN  IF l2 = 0 THEN [c |-> 0, n |-> pax * pax + pay * pay, pd |-> p.d, l2 |-> 1]
        ELSE IF dot <= 0 THEN [c |-> 0, n |-> pax * pax + pay * pay, pd |-> p.d, l2 |-> 1]
        ELSE IF dot >= l2 * p.d THEN [c |-> 0, n |-> pbx * pbx + pby * pby, pd |-> p.d, l2 |-> 1]
        ELSE [c |-> Abs(cross), n |-> 0, pd |-> p.d, l2 |-> l2]

\* q < (R2 / 2)^2 for a squared distance q.  With k = R2 * pd the comparison is
\* 4 * n < k^2, or (2 * c)^2 < k^2 * l2, the latter settled around
\* k * FloorSqrt(l2) so that no product leaves the range of the integers
LessThanRadiusSq(q, R2) ==
    LET k == R2 * q.pd
        s == FloorSqrt(q.l2)
        lhs == 2 * q.c
        e == lhs - k * s
    IN  IF q.c = 0 THEN 4 * q.n < k * k
        ELSE IF lhs < k * s THEN TRUE
        ELSE IF lhs >= k * (s + 1) THEN FALSE
        ELSE 2 * k * s * e + e * e < k * k * (q.l2 - s * s)

\* isPointErased(point, eraserStroke, pointRadius) with pointR2 = 2 * pointRadius
isPointErased(point, eraserStroke, pointR2) ==
    LET totalR2 == eraserStroke.lineWidth + pointR2
    IN  IF Len(eraserStroke.points) = 1
        THEN LET p  == eraserStroke.points[1]
                 ex == point.x - point.d * p.x
                 ey == point.y - point.d * p.y
             IN  LessThanRadiusSq([c |-> 0, n |-> ex * ex + ey * ey, pd |-> point.d, l2 |-> 1], totalR2)
        ELSE \E i \in 1..(Len(eraserStroke.points) - 1) :
                LessThanRadiusSq(pDistanceToSegmentSquared(point, eraserStroke.points[i],
                                                           eraserStroke.points[i + 1]), totalR2)

(***************************************************************************)
(* Erasure engine (applyErasure, src/App.tsx)                              *)
(***************************************************************************)

Seg(a, b) == [p1 |-> a, p2 |-> b]

\* Step 1 of applyErasure: the stroke as a list of line segments.  The
\* modelled tools are pen, line, dashed-line and rectangle, whose shape
\* segments have integer sample points.
Segments(stroke) ==
    IF Len(stroke.points) < 2 THEN <<>>
    ELSE IF stroke.tool = "pen"
    THEN [i \in 1..(Len(stroke.points) - 1) |-> Seg(stroke.points[i], stroke.points[i + 1])]
    ELSE IF stroke.tool \in {"line", "dashed-line"}
    THEN <<Seg(stroke.points[1], stroke.points[2])>>
    ELSE IF stroke.tool = "rectangle"
    THEN LET start == stroke.points[1]
             end   == stroke.points[2]
             p1 == Pt(Min(start.x, end.x), Min(start.y, end.y))
             p3 == Pt(Max(start.x, end.x), Max(start.y, end.y))
             p2 == Pt(p3.x, p1.y)
             p4 == Pt(p1.x, p3.y)
         IN  <<Seg(p1, p2), Seg(p2, p3), Seg(p3, p4), Seg(p4, p1)>>
    ELSE <<>>

interpolationStep == 1

\* Math.max(1, Math.ceil(segmentLength / interpolationStep))
NumSteps(a, b) ==
    Max(1, CeilSqrt((b.x - a.x) * (b.x - a.x) + (b.y - a.y) * (b.y - a.y)))

\* The point a + (b - a) * (step / n), as numerators over the denominator n
Interpolated(a, b, step, n) ==
    [x |-> n * a.x + (b.x - a.x) * step, y |-> n * a.y + (b.y - a.y) * step, d |-> n]

Exact(p) == [x |-> p.x, y |-> p.y, d |-> 1]

\* the inner loop of the pen branch: some interior sample of [p1, p2] is erased
isSegmentErased(p1, p2, eraserStroke, pointR2) ==
    LET numSteps == NumSteps(p1, p2)
    IN  \E step \in 1..(numSteps - 1) :
            isPointErased(Interpolated(p1, p2, step, numSteps), eraserStroke, pointR2)

EmitIfLong(frags, cur) == IF Len(cur) > 1 THEN Append(frags, cur) ELSE frags

RECURSIVE PenWalk(_, _, _, _, _, _)
\* the loop over the points of a pen stroke, from index i
PenWalk(points, i, eraserStroke, pointR2, cur, acc) ==
    IF i > Len(points)
    THEN [madeCut |-> acc.madeCut, newFragments |-> EmitIfLong(acc.newFragments, cur)]
    ELSE LET p1 == points[i]
             isP1Erased == isPointErased(Exact(p1), eraserStroke, pointR2)
             segErased  == i + 1 <= Len(points)
                           /\ isSegmentErased(p1, points[i + 1], eraserStroke, pointR2)
             cur1 == IF ~isP1Erased THEN Append(cur, p1) ELSE cur
         IN  IF isP1Erased \/ segErased
             THEN PenWalk(points, i + 1, eraserStroke, pointR2, <<>>,
                          [madeCut |-> TRUE, newFragments |-> EmitIfLong(acc.newFragments, cur1)])
             ELSE PenWalk(points, i + 1, eraserStroke, pointR2, cur1, acc)

\* a sample of a shape segment as a world point (exact for the axis-aligned
\* segments of the modelled shapes)
SamplePoint(seg, i, n) ==
    Pt(seg.p1.x + ((seg.p2.x - seg.p1.x) * i) \div n, seg.p1.y + ((seg.p2.y - seg.p1.y) * i) \div n)

\* the fragments the samples of one shape segment leave, given for each
\* sample i = 0..n whether it is kept (not erased): the runs of two or more
\* kept samples, in order
SegRuns(seg, n, kept) ==
    LET starts == {i \in 0..n : kept[i] /\ (i = 0 \/ ~kept[i - 1])}
        EndOf(s) == CHOOSE e \in s..n : (\A m \in s..e : kept[m]) /\ (e = n \/ ~kept[e + 1])
        long == SortedSeq({s \in starts : EndOf(s) > s})
    IN  [k \in 1..Len(long) |->
            [m \in 1..(EndOf(long[k]) - long[k] + 1) |-> SamplePoint(seg, long[k] + m - 1, n)]]

\* the loop over the samples i = 0..numSteps of one shape segment
SegWalk(seg, n, eraserStroke, pointR2) ==
    SegRuns(seg, n, [i \in 0..n |->
                        ~isPointErased(Interpolated(seg.p1, seg.p2, i, n), eraserStroke, pointR2)])

RECURSIVE ShapeWalk(_, _, _)
\* the loop over the segments of a shape
ShapeWalk(segments, eraserStroke, pointR2) ==
    IF segments = <<>> THEN <<>>
    ELSE SegWalk(Head(segments), NumSteps(Head(segments).p1, Head(segments).p2),
                 eraserStroke, pointR2)
         \o ShapeWalk(Tail(segments), eraserStroke, pointR2)

RECURSIVE PolylineLength(_)
PolylineLength(frag) ==
    IF Len(frag) < 2 THEN 0
    ELSE Hypot(frag[2].x - frag[1].x, frag[2].y - frag[1].y) + PolylineLength(Tail(frag))

RECURSIVE SumLengths(_)
SumLengths(frags) ==
    IF frags = <<>> THEN 0 ELSE PolylineLength(Head(frags)) + SumLengths(Tail(frags))

RECURSIVE SumSegments(_)
SumSegments(segments) ==
    IF segments = <<>> THEN 0
    ELSE Hypot(Head(segments).p2.x - Head(segments).p1.x, Head(segments).p2.y - Head(segments).p1.y)
         + SumSegments(Tail(segments))

\* Step 2 of applyErasure for one candidate stroke
Fragment(stroke, eraserStroke) ==
    LET pointR2 == stroke.lineWidth
        segments == Segments(stroke)
    IN  IF stroke.tool = "pen"
        THEN PenWalk(stroke.points, 1, eraserStroke, pointR2, <<>>,
                     [madeCut |-> FALSE, newFragments |-> <<>>])
        ELSE LET newFragments == ShapeWalk(segments, eraserStroke, pointR2)
                 originalPerimeter == SumSegments(segments)
                 newPerimeter == SumLengths(newFragments)
             IN  [madeCut |-> Abs(originalPerimeter - newPerimeter) > 1,
                  newFragments |-> newFragments]

\* the broad-phase cull and the guards before step 2: the stroke is a candidate
IsCandidate(stroke, eraserBounds) ==
    /\ stroke.tool # "eraser"
    /\ getStrokeBounds(stroke).some
    /\ doRectsIntersect(eraserBounds, getStrokeBounds(stroke).val)
    /\ Len(Segments(stroke)) > 0

RECURSIVE FreshSeq(_, _)

\* an id generator that returns the same id at every call
LeastFreeMutReuses(used) == 1

\* crypto.randomUUID(): an id not in use, here the least one
LeastFree(used) ==
    CHOOSE i \in 1..(Cardinality(used) + 1) : i \notin used /\ \A j \in 1..(i - 1) : j \in used

\* the ids n successive calls return
FreshSeq(n, used) ==
    IF n = 0 THEN <<>>
    ELSE <<LeastFree(used)>> \o FreshSeq(n - 1, used \cup {LeastFree(used)})

\* replacements that keep the tool of the stroke they are cut from
ReplacementMutKeepsTool(stroke, newFragments, ids) ==
    [k \in 1..Len(newFragments) |-> [stroke EXCEPT !.id = ids[k], !.points = newFragments[k]]]

\* step 3 of applyErasure: the pen strokes that replace a cut stroke
Replacement(stroke, newFragments, ids) ==
    [k \in 1..Len(newFragments) |->
        [stroke EXCEPT !.tool = "pen", !.id = ids[k], !.points = newFragments[k]]]

\* step 3 for one stroke, given the result of step 2
CutResult(stroke, res, used) ==
    [madeCut |-> res.madeCut,
     added |-> IF res.madeCut
               THEN Replacement(stroke, res.newFragments, FreshSeq(Len(res.newFragments), used))
               ELSE <<>>]

\* steps 1 to 3 for one stroke of currentStrokes: whether it is deleted and
\* what is added for it
ErasureOf(stroke, eraserStroke, used) ==
    IF IsCandidate(stroke, getStrokeBounds(eraserStroke).val)
    THEN CutResult(stroke, Fragment(stroke, eraserStroke), used)
    ELSE [madeCut |-> FALSE, added |-> <<>>]

RECURSIVE applyErasureLoop(_, _, _, _)
\* one turn of the loop, given what ErasureOf found for the first stroke
ErasureStep(eraserStroke, strokes, used, acc, res) ==
    applyErasureLoop(eraserStroke, Tail(strokes), used \cup IdsOfStrokes(res.added),
        [strokesToDelete |-> IF res.madeCut THEN acc.strokesToDelete \cup {Head(strokes).id}
                                            ELSE acc.strokesToDelete,
         strokesToAdd |-> acc.strokesToAdd \o res.added])

\* the loop of applyErasure over currentStrokes; used: the ids in use
applyErasureLoop(eraserStroke, strokes, used, acc) ==
    IF strokes = <<>> THEN acc
    ELSE ErasureStep(eraserStroke, strokes, used, acc, ErasureOf(Head(strokes), eraserStroke, used))

\* applyErasure(eraserStroke, currentStrokes); used: the ids in use
applyErasure(eraserStroke, currentStrokes, used) ==
    IF ~getStrokeBounds(eraserStroke).some
    THEN [strokesToDelete |-> {}, strokesToAdd |-> <<>>]
    ELSE applyErasureLoop(eraserStroke, currentStrokes, used,
                          [strokesToDelete |-> {}, strokesToAdd |-> <<>>])

(***************************************************************************)
(* Application state (the component App, src/App.tsx)                      *)
(***************************************************************************)

VARIABLES
    projects,                \* useState<Project[]>: sequence of [id, strokes, images]
    currentProjectId,        \* useState
    history,                 \* useState: sequence of [strokes, images]
    historyIndex,            \* useState: 0-based index into history
    selectedStrokeIds,       \* useState<Set<string>>
    selectedImageIds,        \* useState<Set<string>>
    drawOptions,             \* useState<DrawOptions>
    actionRef,               \* useRef<Action>
    currentStrokeRef,        \* useRef<Stroke | null>
    transformStartRef,       \* useRef
    lastStrokeProperties,    \* useRef<Map>: id -> [points, lineWidth]
    lastImageProperties,     \* useRef<Map>: id -> ImageTransform
    lastCoords,              \* useRef
    animationFrameId,        \* which animation loop is requested: none, drawing, transform
    loopStrokes,             \* currentProject.strokes closed over by the requested transform
                             \* loop; <<>> when no frame is requested
    selectionStartRef,       \* useRef
    isPanning,               \* useState
    previewStroke,           \* useState<Stroke | null>
    previewStrokes,          \* useState<Stroke[] | null>
    previewImageTransforms,  \* useState<Map | null>
    selectionRect,           \* useState
    uploads,                 \* image uploads whose image.onload has not run yet
    commits,                 \* how often the history has been appended to or reset
    eraserIn,                \* applyErasure on its own: the eraser stroke
    strokesIn,               \* applyErasure on its own: currentStrokes
    erasureOut,              \* applyErasure on its own: the result, None before the call
    callIn,                  \* a function called on its own: its arguments
    callOut                  \* a function called on its own: the result, None before the call

docVars == <<projects, currentProjectId, history, historyIndex, commits>>
selVars == <<selectedStrokeIds, selectedImageIds>>
refVars == <<actionRef, currentStrokeRef, transformStartRef, lastStrokeProperties,
             lastImageProperties, lastCoords, animationFrameId, loopStrokes,
             selectionStartRef, isPanning>>
previewVars == <<previewStroke, previewStrokes, previewImageTransforms, selectionRect>>
pureVars == <<eraserIn, strokesIn, erasureOut, callIn, callOut>>
vars == <<projects, currentProjectId, history, historyIndex, selectedStrokeIds,
          selectedImageIds, drawOptions, actionRef, currentStrokeRef, transformStartRef,
          lastStrokeProperties, lastImageProperties, lastCoords, animationFrameId,
          loopStrokes, selectionStartRef, isPanning, previewStroke, previewStrokes,
          previewImageTransforms, selectionRect, uploads, commits, eraserIn, strokesIn,
          erasureOut, callIn, callOut>>

(***************************************************************************)
(* Bounds of the model                                                     *)
(***************************************************************************)
MaxCommits  == 3   \* appends to and resets of the history in one run
MaxPoints   == 2   \* a pen or eraser stroke is not extended beyond this many points
MaxProjects == 2   \* projects at a time
MaxUploads  == 1   \* uploads in flight at a time

\* pointer positions (world coordinates) the environment chooses from: where a
\* button goes down, and where the pointer moves to
DownCoords == {Pt(0, 0)}
\* a position the button goes down at only where a handle of the selection is
HandleCoords == {Pt(20, -25)}
Coords == {Pt(0, 0), Pt(40, 0)}

\* tools the toolbar offers in the model
Tools == {"pen", "eraser", "selection"}

HANDLE_SIZE == 10
ROTATION_HANDLE_OFFSET == 25
SelectionPadding == 5      \* 5 / zoom, zoom = 1
HitTolerance == 5          \* 5 / zoom, zoom = 1
MinImageSize == 20

\* the transform handleImageUpload gives a new image (viewport and image size
\* are fixed: a square image centred in the view)
UploadTransform == [x |-> 20, y |-> 20, width |-> 40, height |-> 40, rotation |-> 0]

(***************************************************************************)
(* Derived state                                                           *)
(***************************************************************************)

\* useMemo: projects.find(p => p.id === currentProjectId)
HasCurrentProject == \E i \in 1..Len(projects) : projects[i].id = currentProjectId
currentProject == projects[CHOOSE i \in 1..Len(projects) : projects[i].id = currentProjectId]
hasSelection == selectedStrokeIds # {} \/ selectedImageIds # {}

Snapshot(strokes, images) == [strokes |-> strokes, images |-> images]

\* an update of the project that installs the strokes and drops the images
SetProjectMutDropsImages(prev, id, strokes, images) ==
    [i \in 1..Len(prev) |->
        IF prev[i].id = id THEN [prev[i] EXCEPT !.strokes = strokes, !.images = <<>>]
        ELSE prev[i]]

\* setProjects(prev => prev.map(p => p.id === id ? {...p, strokes, images} : p))
SetProject(prev, id, strokes, images) ==
    [i \in 1..Len(prev) |->
        IF prev[i].id = id THEN [prev[i] EXCEPT !.strokes = strokes, !.images = images]
        ELSE prev[i]]

SetProjectStrokes(prev, id, strokes) ==
    [i \in 1..Len(prev) |-> IF prev[i].id = id THEN [prev[i] EXCEPT !.strokes = strokes] ELSE prev[i]]

SetProjectImages(prev, id, images) ==
    [i \in 1..Len(prev) |-> IF prev[i].id = id THEN [prev[i] EXCEPT !.images = images] ELSE prev[i]]

\* prevHistory.slice(0, closedIndex + 1) followed by the new snapshot;
\* closedIndex is the historyIndex the callback closed over
NewHistory(prevHistory, closedIndex, snapshot) ==
    SubSeq(prevHistory, 1, Min(closedIndex + 1, Len(prevHistory))) \o <<snapshot>>

\* a commit that appends to the whole history and keeps the redo states
recordNewHistoryStateMutKeepsRedo(newStrokes, newImages) ==
    /\ commits < MaxCommits
    /\ commits' = commits + 1
    /\ history' = Append(history, Snapshot(newStrokes, newImages))
    /\ historyIndex' = historyIndex + 1

\* recordNewHistoryState called from a handler of the current render
recordNewHistoryState(newStrokes, newImages) ==
    /\ commits < MaxCommits
    /\ commits' = commits + 1
    /\ history' = NewHistory(history, historyIndex, Snapshot(newStrokes, newImages))
    /\ historyIndex' = historyIndex + 1

\* a reset that installs the snapshot but leaves the index where it was
resetHistoryMutKeepsIndex(strokes, images) ==
    /\ commits < MaxCommits
    /\ commits' = commits + 1
    /\ history' = <<Snapshot(strokes, images)>>
    /\ historyIndex' = historyIndex

resetHistory(strokes, images) ==
    /\ commits < MaxCommits
    /\ commits' = commits + 1
    /\ history' = <<Snapshot(strokes, images)>>
    /\ historyIndex' = 0

\* ids in use anywhere; crypto.randomUUID returns an id outside this set
UsedIds ==
    UNION {IdsOfStrokes(projects[i].strokes) \cup IdsOfStrokes(projects[i].images) : i \in 1..Len(projects)}
    \cup UNION {IdsOfStrokes(history[i].strokes) \cup IdsOfStrokes(history[i].images) : i \in 1..Len(history)}
    \cup UNION {IdsOfStrokes(u.strokes) \cup IdsOfStrokes(u.images) : u \in uploads}
    \cup selectedStrokeIds \cup selectedImageIds
    \cup (IF currentStrokeRef.some THEN {currentStrokeRef.val.id} ELSE {})
    \cup DOMAIN lastStrokeProperties \cup DOMAIN lastImageProperties
    \cup (IF transformStartRef.some
          THEN (IF transformStartRef.val.strokeIds.some THEN transformStartRef.val.strokeIds.val ELSE {})
               \cup (IF transformStartRef.val.imageIds.some THEN transformStartRef.val.imageIds.val ELSE {})
               \cup (IF transformStartRef.val.imageId.some THEN {transformStartRef.val.imageId.val} ELSE {})
          ELSE {})
EmptyMap == [i \in {} |-> 0]

\* the pointer is over the drawing surface with no gesture in progress; a
\* click on the toolbar or the projects panel needs the pointer off the surface
Idle == actionRef = "none"

\* bound: no gesture, edit or upload starts once the history has changed MaxCommits times
CanEdit == commits < MaxCommits

\* the state of App after its first render, before any event
InitApp ==
    /\ projects = <<[id |-> 1, strokes |-> <<>>, images |-> <<>>]>>
    /\ currentProjectId = 1
    /\ history = <<Snapshot(<<>>, <<>>)>>
    /\ historyIndex = 0
    /\ selectedStrokeIds = {}
    /\ selectedImageIds = {}
    /\ drawOptions = [color |-> "#000000", lineWidth |-> 5, tool |-> "pen"]
    /\ actionRef = "none"
    /\ currentStrokeRef = None
    /\ transformStartRef = None
    /\ lastStrokeProperties = EmptyMap
    /\ lastImageProperties = EmptyMap
    /\ lastCoords = None
    /\ animationFrameId = "none"
    /\ loopStrokes = <<>>
    /\ selectionStartRef = None
    /\ isPanning = FALSE
    /\ previewStroke = None
    /\ previewStrokes = None
    /\ previewImageTransforms = None
    /\ selectionRect = None
    /\ uploads = {}
    /\ commits = 0

Init ==
    /\ InitApp
    /\ eraserIn = None
    /\ strokesIn = <<>>
    /\ erasureOut = None
    /\ callIn = None
    /\ callOut = None

(***************************************************************************)
(* Transform engine.  An angle is a whole number of quarter turns (the     *)
(* source's radians divided by pi / 2); the pointer positions of a rotate  *)
(* gesture lie on the axes through the pivot.  A scale is a fraction       *)
(* [p, q].  A pivot at the centre of a bounding box is carried doubled,    *)
(* as numerators over d = 2.                                               *)
(***************************************************************************)

CosQ(q) == LET r == q % 4 IN IF r = 0 THEN 1 ELSE IF r = 2 THEN -1 ELSE 0
SinQ(q) == LET r == q % 4 IN IF r = 1 THEN 1 ELSE IF r = 3 THEN -1 ELSE 0

OnAxis(dy, dx) == dx = 0 \/ dy = 0

\* Math.atan2(dy, dx) in quarter turns, for a vector on an axis
Atan2Q(dy, dx) ==
    IF dy = 0 THEN (IF dx < 0 THEN 2 ELSE 0)
    ELSE IF dy > 0 THEN 1 ELSE -1

\* 1 / 0.01, the inverse of the least scale of a stroke resize
MinScaleInverse == 100

\* the scales above it that the model represents
Scales == {[p |-> 1, q |-> 2], [p |-> 1, q |-> 1], [p |-> 2, q |-> 1]}

\* Math.max(0.01, currentDist / initialDist) from the squared distances: 1/100
\* when the quotient is at most that; otherwise None when the quotient is not
\* one of Scales
ScaleOf(currentDistSq, initialDistSq) ==
    IF currentDistSq <= initialDistSq \div (MinScaleInverse * MinScaleInverse)
    THEN Some([p |-> 1, q |-> MinScaleInverse])
    ELSE IF \E sc \in Scales : currentDistSq * sc.q * sc.q = initialDistSq * sc.p * sc.p
    THEN Some(CHOOSE sc \in Scales : currentDistSq * sc.q * sc.q = initialDistSq * sc.p * sc.p)
    ELSE None

Includes(handle, letter) ==
    \/ letter = "l" /\ handle \in {"tl", "bl"}
    \/ letter = "r" /\ handle \in {"tr", "br"}
    \/ letter = "t" /\ handle \in {"tl", "tr"}
    \/ letter = "b" /\ handle \in {"bl", "br"}

\* the value of transformStartRef.current; an absent field is None (handle: "")
TransformStart(startPoint, initialTransform, selectionCenter, initialBounds, handle, imageId, strokeIds, imageIds) ==
    [startPoint |-> startPoint, initialTransform |-> initialTransform,
     selectionCenter |-> selectionCenter, initialBounds |-> initialBounds,
     handle |-> handle, imageId |-> imageId, strokeIds |-> strokeIds, imageIds |-> imageIds]

\* the first switch of calculateTransformedStrokes: dx, dy, rotation, scale, anchor
TransformParams(currentCoords, startState, currentAction) ==
    LET startPoint == startState.startPoint
        c == startState.selectionCenter
        anchor == IF currentAction = "resizing-strokes" /\ startState.initialBounds.some
                     /\ startState.handle # ""
                  THEN LET b == startState.initialBounds.val
                       IN  Some(Pt(IF Includes(startState.handle, "l") THEN b.x + b.width ELSE b.x,
                                   IF Includes(startState.handle, "t") THEN b.y + b.height ELSE b.y))
                  ELSE None
        initialDistSq == (startPoint.x - anchor.val.x) * (startPoint.x - anchor.val.x)
                         + (startPoint.y - anchor.val.y) * (startPoint.y - anchor.val.y)
        currentDistSq == (currentCoords.x - anchor.val.x) * (currentCoords.x - anchor.val.x)
                         + (currentCoords.y - anchor.val.y) * (currentCoords.y - anchor.val.y)
    IN  [dx |-> IF currentAction = "dragging" THEN currentCoords.x - startPoint.x ELSE 0,
         dy |-> IF currentAction = "dragging" THEN currentCoords.y - startPoint.y ELSE 0,
         rotation |-> IF currentAction = "rotating-strokes" /\ c.some
                      THEN Atan2Q(2 * currentCoords.y - c.val.y, 2 * currentCoords.x - c.val.x)
                           - Atan2Q(2 * startPoint.y - c.val.y, 2 * startPoint.x - c.val.x)
                      ELSE 0,
         scale |-> IF anchor.some /\ initialDistSq > 0
                   THEN ScaleOf(currentDistSq, initialDistSq)
                   ELSE Some([p |-> 1, q |-> 1]),
         anchor |-> anchor]

\* a resize that scales about the origin instead of the anchor
TransformPointNMutOrigin(pt, prm, c) ==
    LET sc == prm.scale.val
        scaled == sc.p # sc.q /\ prm.anchor.some
        \* over the denominator q
        sx == IF scaled THEN pt.x * sc.p ELSE sc.q * pt.x
        sy == IF scaled THEN pt.y * sc.p ELSE sc.q * pt.y
        rotated == prm.rotation # 0 /\ c.some
        cos == CosQ(prm.rotation)
        sin == SinQ(prm.rotation)
        \* over the denominator 2 * q
        tx == 2 * sx - sc.q * c.val.x
        ty == 2 * sy - sc.q * c.val.y
        rx == IF rotated THEN tx * cos - ty * sin + sc.q * c.val.x ELSE 2 * sx
        ry == IF rotated THEN tx * sin + ty * cos + sc.q * c.val.y ELSE 2 * sy
    IN  [x |-> rx + 2 * sc.q * prm.dx, y |-> ry + 2 * sc.q * prm.dy, d |-> 2 * sc.q]

\* one point through scale, rotation and translation; numerators over d
TransformPointN(pt, prm, c) ==
    LET sc == prm.scale.val
        scaled == sc.p # sc.q /\ prm.anchor.some
        \* over the denominator q
        sx == IF scaled THEN sc.q * prm.anchor.val.x + (pt.x - prm.anchor.val.x) * sc.p ELSE sc.q * pt.x
        sy == IF scaled THEN sc.q * prm.anchor.val.y + (pt.y - prm.anchor.val.y) * sc.p ELSE sc.q * pt.y
        rotated == prm.rotation # 0 /\ c.some
        cos == CosQ(prm.rotation)
        sin == SinQ(prm.rotation)
        \* over the denominator 2 * q
        tx == 2 * sx - sc.q * c.val.x
        ty == 2 * sy - sc.q * c.val.y
        rx == IF rotated THEN tx * cos - ty * sin + sc.q * c.val.x ELSE 2 * sx
        ry == IF rotated THEN tx * sin + ty * cos + sc.q * c.val.y ELSE 2 * sy
    IN  [x |-> rx + 2 * sc.q * prm.dx, y |-> ry + 2 * sc.q * prm.dy, d |-> 2 * sc.q]

IsWhole(p) == p.x % p.d = 0 /\ p.y % p.d = 0
Whole(p) == Pt(p.x \div p.d, p.y \div p.d)

\* the corners of the rectangle taken crosswise
RectCornersMutCrossed(points) ==
    LET start == points[1]
        end   == points[2]
        p1 == Pt(Min(start.x, end.x), Min(start.y, end.y))
        p3 == Pt(Max(start.x, end.x), Max(start.y, end.y))
    IN  <<p1, p3, Pt(p3.x, p1.y), Pt(p1.x, p3.y)>>

\* the corners p1, p2, p3, p4 of a 2-point rectangle
RectCorners(points) ==
    LET start == points[1]
        end   == points[2]
        p1 == Pt(Min(start.x, end.x), Min(start.y, end.y))
        p3 == Pt(Max(start.x, end.x), Max(start.y, end.y))
    IN  <<p1, Pt(p3.x, p1.y), p3, Pt(p1.x, p3.y)>>

\* the body of the loop of calculateTransformedStrokes for one stroke
TransformStroke(originalStroke, originalProperties, prm, c, currentAction) ==
    LET sc == prm.scale.val
        newPoints == [i \in 1..Len(originalProperties.points) |->
                         Whole(TransformPointN(originalProperties.points[i], prm, c))]
        newLineWidth == IF currentAction = "resizing-strokes"
                        THEN (originalProperties.lineWidth * sc.p) \div sc.q
                        ELSE originalProperties.lineWidth
        newStroke == [originalStroke EXCEPT !.points = newPoints, !.lineWidth = newLineWidth]
    IN  IF currentAction = "rotating-strokes" /\ newStroke.tool = "rectangle" /\ Len(newStroke.points) = 2
        THEN LET corners == RectCorners(originalProperties.points)
                 transformedCorners == [i \in 1..4 |->
                     Whole(TransformPointN(corners[i], [prm EXCEPT !.scale = Some([p |-> 1, q |-> 1])], c))]
             IN  [newStroke EXCEPT !.tool = "pen",
                                   !.points = Append(transformedCorners, transformedCorners[1])]
        ELSE newStroke

HasStroke(strokes, id) == \E i \in 1..Len(strokes) : strokes[i].id = id
FindStroke(strokes, id) == strokes[CHOOSE i \in 1..Len(strokes) : strokes[i].id = id]

\* calculateTransformedStrokes; projectStrokes is currentProject.strokes of the
\* render the caller closed over (None: no current project)
calculateTransformedStrokes(currentCoords, startState, currentAction, projectStrokes) ==
    IF ~startState.some \/ ~projectStrokes.some THEN <<>>
    ELSE LET st == startState.val
             prm == TransformParams(currentCoords, st, currentAction)
             ids == IF st.strokeIds.some THEN st.strokeIds.val ELSE {}
         IN  IF prm.dx = 0 /\ prm.dy = 0 /\ prm.rotation = 0 /\ prm.scale.val.p = prm.scale.val.q
             THEN SeqKeepIds(projectStrokes.val, ids)
             ELSE LET todo == SortedSeq({id \in ids : HasStroke(projectStrokes.val, id)
                                                     /\ id \in DOMAIN lastStrokeProperties})
                  IN  [k \in 1..Len(todo) |->
                          TransformStroke(FindStroke(projectStrokes.val, todo[k]),
                                          lastStrokeProperties[todo[k]], prm, st.selectionCenter,
                                          currentAction)]

\* the model represents the result of the stroke gesture at this pointer position
StrokeGestureExact(currentCoords, st, currentAction, props) ==
    LET prm == TransformParams(currentCoords, st, currentAction)
        c == st.selectionCenter
    IN  /\ currentAction = "rotating-strokes" /\ c.some =>
              /\ OnAxis(2 * currentCoords.y - c.val.y, 2 * currentCoords.x - c.val.x)
              /\ OnAxis(2 * st.startPoint.y - c.val.y, 2 * st.startPoint.x - c.val.x)
        /\ prm.scale.some
        /\ \A id \in DOMAIN props :
              LET op == props[id]
              IN  /\ \A i \in 1..Len(op.points) : IsWhole(TransformPointN(op.points[i], prm, c))
                  /\ currentAction = "resizing-strokes" => (op.lineWidth * prm.scale.val.p) % prm.scale.val.q = 0
                  /\ currentAction = "rotating-strokes" /\ Len(op.points) = 2 =>
                        \A i \in 1..4 : IsWhole(TransformPointN(RectCorners(op.points)[i],
                                                  [prm EXCEPT !.scale = Some([p |-> 1, q |-> 1])], c))

(***************************************************************************)
(* Images                                                                  *)
(***************************************************************************)

\* the point in the image's local frame (rotation by -transform.rotation)
LocalPoint(point, transform) ==
    LET translatedX == point.x - transform.x
        translatedY == point.y - transform.y
        sin == SinQ(-transform.rotation)
        cos == CosQ(-transform.rotation)
    IN  Pt(translatedX * cos - translatedY * sin, translatedX * sin + translatedY * cos)

isPointInTransformedRect(point, transform) ==
    LET r == LocalPoint(point, transform)
    IN  /\ 2 * r.x >= -transform.width /\ 2 * r.x <= transform.width
        /\ 2 * r.y >= -transform.height /\ 2 * r.y <= transform.height

\* getHandles, doubled: twice the local position of each handle, in the order
\* of Object.entries
getHandles(transform) ==
    <<[name |-> "tl", x |-> -transform.width, y |-> -transform.height],
      [name |-> "tr", x |-> transform.width, y |-> -transform.height],
      [name |-> "bl", x |-> -transform.width, y |-> transform.height],
      [name |-> "br", x |-> transform.width, y |-> transform.height],
      [name |-> "rot", x |-> 0, y |-> -transform.height - 2 * ROTATION_HANDLE_OFFSET]>>

\* getHandleAtPoint: "" stands for null
getHandleAtPoint(point, transform) ==
    LET handles == getHandles(transform)
        l == LocalPoint(point, transform)
        hit(h) == /\ 2 * l.x >= h.x - HANDLE_SIZE /\ 2 * l.x <= h.x + HANDLE_SIZE
                  /\ 2 * l.y >= h.y - HANDLE_SIZE /\ 2 * l.y <= h.y + HANDLE_SIZE
    IN  IF \E i \in 1..5 : hit(handles[i])
        THEN handles[CHOOSE i \in 1..5 : hit(handles[i]) /\ \A j \in 1..(i - 1) : ~hit(handles[j])].name
        ELSE ""

\* getTransformedImageBounds (width and height are even in the model)
getTransformedImageBounds(transform) ==
    LET halfWidth == transform.width \div 2
        halfHeight == transform.height \div 2
        cos == CosQ(transform.rotation)
        sin == SinQ(transform.rotation)
        corners == <<Pt(-halfWidth, -halfHeight), Pt(halfWidth, -halfHeight),
                     Pt(halfWidth, halfHeight), Pt(-halfWidth, halfHeight)>>
        worldCorners == [i \in 1..4 |-> Pt(corners[i].x * cos - corners[i].y * sin + transform.x,
                                           corners[i].x * sin + corners[i].y * cos + transform.y)]
    IN  Rect(MinX(worldCorners), MinY(worldCorners),
             MaxX(worldCorners) - MinX(worldCorners), MaxY(worldCorners) - MinY(worldCorners))

RECURSIVE ImageBoundsFrom(_, _)
\* the reduce over the selected images
ImageBoundsFrom(images, acc) ==
    IF images = <<>> THEN acc
    ELSE LET b == getTransformedImageBounds(Head(images).transform)
         IN  ImageBoundsFrom(Tail(images), IF ~acc.some THEN Some(b) ELSE Some(UnionRect(acc.val, b)))

\* the reduce over [allStrokesBounds, allImageBounds]
CombinedBounds(a, b) ==
    IF ~a.some THEN b ELSE IF ~b.some THEN a ELSE Some(UnionRect(a.val, b.val))

\* the rotating-image case: the final transform
rotateImage(initialTransform, startPoint, coords) ==
    LET angleStart == Atan2Q(startPoint.y - initialTransform.y, startPoint.x - initialTransform.x)
        angleCurrent == Atan2Q(coords.y - initialTransform.y, coords.x - initialTransform.x)
        angleDelta == angleCurrent - angleStart
    IN  [initialTransform EXCEPT !.rotation = initialTransform.rotation + angleDelta]

\* the proposed newWidth and newHeight of the resizing-image case, before the
\* aspect ratio is applied
ProposedSize(initialTransform, handle, startPoint, coords) ==
    LET width == initialTransform.width
        height == initialTransform.height
        dx == coords.x - startPoint.x
        dy == coords.y - startPoint.y
        sin == SinQ(-initialTransform.rotation)
        cos == CosQ(-initialTransform.rotation)
        localDx == dx * cos - dy * sin
        localDy == dx * sin + dy * cos
    IN  [w |-> IF handle \in {"tr", "br"} THEN width + localDx
               ELSE IF handle \in {"tl", "bl"} THEN width - localDx ELSE width,
         h |-> IF handle \in {"tr", "tl"} THEN height - localDy
               ELSE IF handle \in {"br", "bl"} THEN height + localDy ELSE height]

\* a resize that changes the size and leaves the centre where it was
resizeImageMutKeepsCentre(initialTransform, handle, startPoint, coords) ==
    LET width == initialTransform.width
        height == initialTransform.height
        prop == ProposedSize(initialTransform, handle, startPoint, coords)
        isCorner == handle \in {"tr", "tl", "br", "bl"}
        widthWins == Abs(prop.w - width) > Abs(prop.h - height)
        w2 == IF isCorner /\ ~widthWins THEN (prop.h * width) \div height ELSE prop.w
        h2 == IF isCorner /\ widthWins THEN (prop.w * height) \div width ELSE prop.h
    IN  [initialTransform EXCEPT !.width = Max(MinImageSize, w2), !.height = Max(MinImageSize, h2)]

\* the resizing-image case: the final transform
resizeImage(initialTransform, handle, startPoint, coords) ==
    LET width == initialTransform.width
        height == initialTransform.height
        rotation == initialTransform.rotation
        prop == ProposedSize(initialTransform, handle, startPoint, coords)
        isCorner == handle \in {"tr", "tl", "br", "bl"}
        widthWins == Abs(prop.w - width) > Abs(prop.h - height)
        \* newHeight = newWidth / aspectRatio, newWidth = newHeight * aspectRatio
        w2 == IF isCorner /\ ~widthWins THEN (prop.h * width) \div height ELSE prop.w
        h2 == IF isCorner /\ widthWins THEN (prop.w * height) \div width ELSE prop.h
        newWidth == Max(MinImageSize, w2)
        newHeight == Max(MinImageSize, h2)
        dWidth == newWidth - width
        dHeight == newHeight - height
        dxCenter == (IF Includes(handle, "l") THEN -(dWidth \div 2) ELSE 0)
                    + (IF Includes(handle, "r") THEN dWidth \div 2 ELSE 0)
        dyCenter == (IF Includes(handle, "t") THEN -(dHeight \div 2) ELSE 0)
                    + (IF Includes(handle, "b") THEN dHeight \div 2 ELSE 0)
        sinR == SinQ(rotation)
        cosR == CosQ(rotation)
        worldDxCenter == dxCenter * cosR - dyCenter * sinR
        worldDyCenter == dxCenter * sinR + dyCenter * cosR
    IN  [initialTransform EXCEPT !.x = initialTransform.x + worldDxCenter,
                                 !.y = initialTransform.y + worldDyCenter,
                                 !.width = newWidth, !.height = newHeight]

\* the model represents the result of the image gesture at this pointer position
ImageGestureExact(coords, st, currentAction) ==
    LET t == st.initialTransform.val
        prop == ProposedSize(t, st.handle, st.startPoint, coords)
        r == resizeImage(t, st.handle, st.startPoint, coords)
    IN  /\ currentAction = "rotating-image" =>
              /\ OnAxis(coords.y - t.y, coords.x - t.x)
              /\ OnAxis(st.startPoint.y - t.y, st.startPoint.x - t.x)
        /\ currentAction = "resizing-image" =>
              /\ (prop.h * t.width) % t.height = 0
              /\ (prop.w * t.height) % t.width = 0
              /\ (r.width - t.width) % 2 = 0
              /\ (r.height - t.height) % 2 = 0

(***************************************************************************)
(* History navigation, deletion, projects and uploads                      *)
(***************************************************************************)

\* an undo that leaves the selection alone
handleUndoMutKeepsSelection ==
    IF historyIndex > 0 /\ historyIndex - 1 < Len(history)
    THEN /\ historyIndex' = historyIndex - 1
         /\ projects' = SetProject(projects, currentProjectId,
                                   history[historyIndex].strokes, history[historyIndex].images)
         /\ UNCHANGED <<currentProjectId, history, commits, selVars, drawOptions, refVars,
                        previewVars, uploads, pureVars>>
    ELSE UNCHANGED vars

\* handleUndo.  history[newIndex] is undefined when newIndex is beyond the
\* list: the destructuring throws before any state is set.
handleUndo ==
    IF historyIndex > 0 /\ historyIndex - 1 < Len(history)
    THEN LET newIndex == historyIndex - 1
         IN  /\ historyIndex' = newIndex
             /\ projects' = SetProject(projects, currentProjectId,
                                       history[newIndex + 1].strokes, history[newIndex + 1].images)
             /\ selectedStrokeIds' = {}
             /\ selectedImageIds' = {}
             /\ UNCHANGED <<currentProjectId, history, commits, drawOptions, refVars,
                            previewVars, uploads, pureVars>>
    ELSE UNCHANGED vars

\* a redo that jumps to the last snapshot
handleRedoMutSkips ==
    IF historyIndex < Len(history) - 1
    THEN /\ historyIndex' = Len(history) - 1
         /\ projects' = SetProject(projects, currentProjectId,
                                   history[Len(history)].strokes, history[Len(history)].images)
         /\ selectedStrokeIds' = {}
         /\ selectedImageIds' = {}
         /\ UNCHANGED <<currentProjectId, history, commits, drawOptions, refVars,
                        previewVars, uploads, pureVars>>
    ELSE UNCHANGED vars

handleRedo ==
    IF historyIndex < Len(history) - 1
    THEN LET newIndex == historyIndex + 1
         IN  /\ historyIndex' = newIndex
             /\ projects' = SetProject(projects, currentProjectId,
                                       history[newIndex + 1].strokes, history[newIndex + 1].images)
             /\ selectedStrokeIds' = {}
             /\ selectedImageIds' = {}
             /\ UNCHANGED <<currentProjectId, history, commits, drawOptions, refVars,
                            previewVars, uploads, pureVars>>
    ELSE UNCHANGED vars

handleDeleteSelection ==
    IF ~HasCurrentProject \/ ~hasSelection THEN UNCHANGED vars
    ELSE LET newStrokes == SeqFilterIds(currentProject.strokes, selectedStrokeIds)
             newImages  == SeqFilterIds(currentProject.images, selectedImageIds)
             strokesChanged == Len(newStrokes) # Len(currentProject.strokes)
             imagesChanged  == Len(newImages) # Len(currentProject.images)
         IN  IF strokesChanged \/ imagesChanged
             THEN /\ projects' = SetProject(projects, currentProjectId, newStrokes, newImages)
                  /\ recordNewHistoryState(newStrokes, newImages)
                  /\ selectedStrokeIds' = {}
                  /\ selectedImageIds' = {}
                  /\ UNCHANGED <<currentProjectId, drawOptions, refVars, previewVars,
                                 uploads, pureVars>>
             ELSE UNCHANGED vars

\* clearCanvas with the confirmation accepted
clearCanvas ==
    IF ~HasCurrentProject THEN UNCHANGED vars
    ELSE /\ recordNewHistoryState(<<>>, <<>>)
         /\ projects' = SetProject(projects, currentProjectId, <<>>, <<>>)
         /\ selectedStrokeIds' = {}
         /\ selectedImageIds' = {}
         /\ UNCHANGED <<currentProjectId, drawOptions, refVars, previewVars, uploads, pureVars>>

\* the Delete / Backspace key (handleKeyDown)
KeyDelete ==
    /\ hasSelection
    /\ CanEdit
    /\ handleDeleteSelection

\* the trash button of the toolbar
handleDelete ==
    /\ Idle
    /\ CanEdit
    /\ IF hasSelection THEN handleDeleteSelection ELSE clearCanvas

\* a tool button of the toolbar
SetTool(t) ==
    /\ Idle
    /\ t # drawOptions.tool
    /\ drawOptions' = [drawOptions EXCEPT !.tool = t]
    /\ UNCHANGED <<docVars, selVars, refVars, previewVars, uploads, pureVars>>

UsedProjectIds == {projects[i].id : i \in 1..Len(projects)} \cup {currentProjectId}
                  \cup {u.projectId : u \in uploads}
FreshProjectId == LeastFree(UsedProjectIds)

NewProject(id) == [id |-> id, strokes |-> <<>>, images |-> <<>>]

handleNewProject ==
    /\ Idle
    /\ Len(projects) < MaxProjects
    /\ projects' = Append(projects, NewProject(FreshProjectId))
    /\ currentProjectId' = FreshProjectId
    /\ selectedStrokeIds' = {}
    /\ selectedImageIds' = {}
    /\ resetHistory(<<>>, <<>>)
    /\ UNCHANGED <<drawOptions, refVars, previewVars, uploads, pureVars>>

handleSelectProject(id) ==
    /\ Idle
    /\ \E i \in 1..Len(projects) : projects[i].id = id
    /\ IF id = currentProjectId THEN UNCHANGED vars
       ELSE LET project == projects[CHOOSE i \in 1..Len(projects) : projects[i].id = id]
            IN  /\ currentProjectId' = id
                /\ resetHistory(project.strokes, project.images)
                /\ selectedStrokeIds' = {}
                /\ selectedImageIds' = {}
                /\ UNCHANGED <<projects, drawOptions, refVars, previewVars, uploads, pureVars>>

RECURSIVE FilterProjects(_, _)
FilterProjects(ps, idToDelete) ==
    IF ps = <<>> THEN <<>>
    ELSE IF Head(ps).id = idToDelete THEN FilterProjects(Tail(ps), idToDelete)
         ELSE <<Head(ps)>> \o FilterProjects(Tail(ps), idToDelete)

\* handleDeleteProject with the confirmation accepted
handleDeleteProject(idToDelete) ==
    /\ Idle
    /\ \E i \in 1..Len(projects) : projects[i].id = idToDelete
    /\ LET remainingProjects == FilterProjects(projects, idToDelete)
       IN  IF currentProjectId = idToDelete
           THEN IF Len(remainingProjects) > 0
                THEN /\ currentProjectId' = remainingProjects[1].id
                     /\ resetHistory(remainingProjects[1].strokes, remainingProjects[1].images)
                     /\ projects' = remainingProjects
                ELSE /\ currentProjectId' = FreshProjectId
                     /\ resetHistory(<<>>, <<>>)
                     /\ projects' = <<NewProject(FreshProjectId)>>
           ELSE /\ projects' = remainingProjects
                /\ UNCHANGED <<currentProjectId, history, historyIndex, commits>>
    /\ UNCHANGED <<selVars, drawOptions, refVars, previewVars, uploads, pureVars>>

\* handleImageUpload for one file: the callbacks close over currentProject,
\* currentProjectId and recordNewHistoryState (hence historyIndex) of this render
handleImageUpload ==
    /\ Idle
    /\ CanEdit
    /\ HasCurrentProject
    /\ Cardinality(uploads) < MaxUploads
    /\ uploads' = uploads \cup {[projectId |-> currentProjectId,
                                 strokes |-> currentProject.strokes,
                                 images |-> currentProject.images,
                                 historyIndex |-> historyIndex]}
    /\ UNCHANGED <<docVars, selVars, drawOptions, refVars, previewVars, pureVars>>

\* image.onload of the upload u (loadedCount === files.length)
imageOnload(u) ==
    /\ u \in uploads
    /\ LET newImage == [id |-> LeastFree(UsedIds), dataUrl |-> "data", transform |-> UploadTransform]
           currentStrokes == u.strokes
           finalImages == u.images \o <<newImage>>
       IN  /\ projects' = SetProjectImages(projects, u.projectId, finalImages)
           /\ commits < MaxCommits
           /\ commits' = commits + 1
           /\ history' = NewHistory(history, u.historyIndex, Snapshot(currentStrokes, finalImages))
           /\ historyIndex' = historyIndex + 1
           /\ selectedImageIds' = {newImage.id}
           /\ selectedStrokeIds' = {}
    /\ uploads' = uploads \ {u}
    /\ UNCHANGED <<currentProjectId, drawOptions, refVars, previewVars, pureVars>>

(***************************************************************************)
(* Pointer gestures                                                        *)
(***************************************************************************)

\* isPointOnStroke destructures stroke.points into start and end (center
\* and edge) for these tools and reads their x: a TypeError when the stroke
\* has fewer than two points
isPointOnStrokeThrows(stroke) ==
    stroke.tool \in {"rectangle", "triangle", "circle"} /\ Len(stroke.points) < 2

\* isPointOnStroke for the modelled tools (tolerance2 is twice the tolerance)
isPointOnStroke(point, stroke, tolerance2) ==
    LET totalR2 == tolerance2 + stroke.lineWidth
        near(a, b) == LessThanRadiusSq(pDistanceToSegmentSquared(Exact(point), a, b), totalR2)
    IN  IF stroke.tool \in {"pen", "line", "dashed-line"}
        THEN \E i \in 1..(Len(stroke.points) - 1) : near(stroke.points[i], stroke.points[i + 1])
        ELSE IF stroke.tool = "rectangle"
        THEN LET start == stroke.points[1]
                 end == stroke.points[2]
                 p1 == Pt(start.x, start.y)
                 p2 == Pt(end.x, start.y)
                 p3 == Pt(end.x, end.y)
                 p4 == Pt(start.x, end.y)
             IN  near(p1, p2) \/ near(p2, p3) \/ near(p3, p4) \/ near(p4, p1)
        ELSE FALSE

\* the images / strokes of the current project, topmost first: the id of the
\* first one that is hit, None if there is none; hit[i] tells whether items[i] is
TopMost(items, hit) ==
    IF \E i \in 1..Len(items) : hit[i]
    THEN Some(items[CHOOSE i \in 1..Len(items) :
                        hit[i] /\ \A j \in (i + 1)..Len(items) : ~hit[j]])
    ELSE None

StrokeProps(strokes) ==
    [id \in IdsOfStrokes(strokes) |->
        [points |-> FindStroke(strokes, id).points, lineWidth |-> FindStroke(strokes, id).lineWidth]]

ImageProps(images) == [id \in IdsOfStrokes(images) |-> FindStroke(images, id).transform]

\* the corner of the selection's handles hit by coords, in the order of
\* Object.entries; "" if none
CornerClicked(coords, bounds) ==
    LET corners == <<[name |-> "tl", x |-> bounds.x - SelectionPadding, y |-> bounds.y - SelectionPadding],
                     [name |-> "tr", x |-> bounds.x + bounds.width + SelectionPadding, y |-> bounds.y - SelectionPadding],
                     [name |-> "bl", x |-> bounds.x - SelectionPadding, y |-> bounds.y + bounds.height + SelectionPadding],
                     [name |-> "br", x |-> bounds.x + bounds.width + SelectionPadding,
                      y |-> bounds.y + bounds.height + SelectionPadding]>>
        hit(c) == /\ 2 * coords.x >= 2 * c.x - HANDLE_SIZE /\ 2 * coords.x <= 2 * c.x + HANDLE_SIZE
                  /\ 2 * coords.y >= 2 * c.y - HANDLE_SIZE /\ 2 * coords.y <= 2 * c.y + HANDLE_SIZE
    IN  IF \E i \in 1..4 : hit(corners[i])
        THEN corners[CHOOSE i \in 1..4 : hit(corners[i]) /\ \A j \in 1..(i - 1) : ~hit(corners[j])].name
        ELSE ""

\* distToRotHandle <= rotHandleRadius, with the centre of the bounds doubled
OnRotHandle(coords, bounds) ==
    LET cx2 == 2 * bounds.x + bounds.width
        rotHandleY == bounds.y - SelectionPadding - ROTATION_HANDLE_OFFSET
        ex == 2 * coords.x - cx2
        ey == 2 * (coords.y - rotHandleY)
    IN  ex * ex + ey * ey <= (2 * HANDLE_SIZE) * (2 * HANDLE_SIZE)

\* part 1 of the selection branch of handleMouseDown: a handle of the single
\* selected image
DownImageHandle(coords) ==
    LET imageId == CHOOSE id \in selectedImageIds : TRUE
        selectedImageInfo == FindStroke(currentProject.images, imageId)
        handle == getHandleAtPoint(coords, selectedImageInfo.transform)
        st == TransformStart(coords, Some(selectedImageInfo.transform), None, None, handle,
                             Some(imageId), None, None)
        action == IF handle = "rot" THEN "rotating-image" ELSE "resizing-image"
    IN  /\ ImageGestureExact(coords, st, action)
        /\ actionRef' = action
        /\ transformStartRef' = Some(st)
        /\ lastCoords' = Some(coords)
        /\ previewImageTransforms' = Some([id \in {imageId} |-> selectedImageInfo.transform])
        /\ animationFrameId' = "transform"
        /\ loopStrokes' = currentProject.strokes
        /\ UNCHANGED <<docVars, selVars, drawOptions, currentStrokeRef, lastStrokeProperties,
                       lastImageProperties, selectionStartRef, isPanning, previewStroke,
                       previewStrokes, selectionRect, uploads, pureVars>>

\* a handle check that takes any selected image, whatever else is selected
ImageHandleHitMutAnySelection(coords) ==
    /\ selectedImageIds # {}
    /\ HasStroke(currentProject.images, CHOOSE id \in selectedImageIds : TRUE)
    /\ getHandleAtPoint(coords, FindStroke(currentProject.images,
                                           CHOOSE id \in selectedImageIds : TRUE).transform) # ""

\* isSingleImageSelected and a handle of that image is under the pointer
ImageHandleHit(coords) ==
    /\ Cardinality(selectedImageIds) = 1 /\ selectedStrokeIds = {}
    /\ HasStroke(currentProject.images, CHOOSE id \in selectedImageIds : TRUE)
    /\ getHandleAtPoint(coords, FindStroke(currentProject.images,
                                           CHOOSE id \in selectedImageIds : TRUE).transform) # ""

\* the action and transformStartRef after the handle checks on a selection of
\* strokes only; actionRef is left as it is when no handle is hit
StrokeHandleAction(coords, bounds) ==
    IF CornerClicked(coords, bounds) # "" THEN "resizing-strokes"
    ELSE IF OnRotHandle(coords, bounds) THEN "rotating-strokes"
    ELSE actionRef

StrokeHandleStart(coords, bounds) ==
    IF CornerClicked(coords, bounds) # ""
    THEN Some(TransformStart(coords, None, None, Some(bounds), CornerClicked(coords, bounds),
                             None, Some(selectedStrokeIds), None))
    ELSE IF OnRotHandle(coords, bounds)
    THEN Some(TransformStart(coords, None,
                             Some([x |-> 2 * bounds.x + bounds.width, y |-> 2 * bounds.y + bounds.height, d |-> 2]),
                             None, "", None, Some(selectedStrokeIds), None))
    ELSE transformStartRef

StrokeHandleHit(coords) ==
    /\ selectedStrokeIds # {} /\ selectedImageIds = {}
    /\ getBounds(SeqKeepIds(currentProject.strokes, selectedStrokeIds)).some
    /\ StrokeHandleAction(coords, getBounds(SeqKeepIds(currentProject.strokes, selectedStrokeIds)).val)
           \in {"resizing-strokes", "rotating-strokes"}

\* part 1 of the selection branch: a handle of the selected strokes
DownStrokeHandle(coords) ==
    LET selectedStrokes == SeqKeepIds(currentProject.strokes, selectedStrokeIds)
        bounds == getBounds(selectedStrokes).val
        st == StrokeHandleStart(coords, bounds)
        action == StrokeHandleAction(coords, bounds)
    IN  /\ st.some
        /\ StrokeGestureExact(coords, st.val, action, StrokeProps(selectedStrokes))
        /\ lastStrokeProperties' = StrokeProps(selectedStrokes)
        /\ actionRef' = action
        /\ transformStartRef' = st
        /\ previewStrokes' = Some(selectedStrokes)
        /\ lastCoords' = Some(coords)
        /\ animationFrameId' = "transform"
        /\ loopStrokes' = currentProject.strokes
        /\ UNCHANGED <<docVars, selVars, drawOptions, currentStrokeRef, lastImageProperties,
                       selectionStartRef, isPanning, previewStroke, previewImageTransforms,
                       selectionRect, uploads, pureVars>>

SelectionBounds ==
    CombinedBounds(getBounds(SeqKeepIds(currentProject.strokes, selectedStrokeIds)),
                   ImageBoundsFrom(SeqKeepIds(currentProject.images, selectedImageIds), None))

InSelectionBox(coords) ==
    /\ hasSelection
    /\ SelectionBounds.some
    /\ LET b == SelectionBounds.val
       IN  /\ coords.x >= b.x - SelectionPadding
           /\ coords.x <= b.x - SelectionPadding + b.width + 2 * SelectionPadding
           /\ coords.y >= b.y - SelectionPadding
           /\ coords.y <= b.y - SelectionPadding + b.height + 2 * SelectionPadding

\* the start of a drag of the strokes and images with these ids
StartDragging(coords, strokeIds, imageIds) ==
    LET strokesToDrag == SeqKeepIds(currentProject.strokes, strokeIds)
        imagesToDrag == SeqKeepIds(currentProject.images, imageIds)
    IN  /\ actionRef' = "dragging"
        /\ transformStartRef' = Some(TransformStart(coords, None, None, None, "", None,
                                                    Some(strokeIds), Some(imageIds)))
        /\ lastStrokeProperties' = StrokeProps(strokesToDrag)
        /\ lastImageProperties' = ImageProps(imagesToDrag)
        /\ previewStrokes' = Some(strokesToDrag)
        /\ previewImageTransforms' = Some(ImageProps(imagesToDrag))
        /\ lastCoords' = Some(coords)
        /\ animationFrameId' = "transform"
        /\ loopStrokes' = currentProject.strokes

\* part 2 of the selection branch: a click on an entity or on the blank canvas
DownEntity(coords, isMultiSelect) ==
    LET InImage(img) == isPointInTransformedRect(coords, img.transform)
        OnStroke(stroke) == isPointOnStroke(coords, stroke, 2 * HitTolerance)
        topClickedImage == TopMost(currentProject.images,
                                   [i \in 1..Len(currentProject.images) |-> InImage(currentProject.images[i])])
        topClickedStroke == IF topClickedImage.some THEN None
                            ELSE TopMost(currentProject.strokes,
                                         [i \in 1..Len(currentProject.strokes) |-> OnStroke(currentProject.strokes[i])])
        isImage == topClickedImage.some
        clickedId == IF isImage THEN topClickedImage.val.id ELSE topClickedStroke.val.id
        isAlreadySelected == IF isImage THEN clickedId \in selectedImageIds
                             ELSE clickedId \in selectedStrokeIds
        replace == ~isAlreadySelected
                   \/ Cardinality(selectedStrokeIds) + Cardinality(selectedImageIds) > 1
        finalSelectedStrokeIds ==
            IF ~isMultiSelect
            THEN IF replace THEN (IF isImage THEN {} ELSE {clickedId}) ELSE selectedStrokeIds
            ELSE IF isImage THEN selectedStrokeIds
                 ELSE IF isAlreadySelected THEN selectedStrokeIds \ {clickedId}
                      ELSE selectedStrokeIds \cup {clickedId}
        finalSelectedImageIds ==
            IF ~isMultiSelect
            THEN IF replace THEN (IF isImage THEN {clickedId} ELSE {}) ELSE selectedImageIds
            ELSE IF ~isImage THEN selectedImageIds
                 ELSE IF isAlreadySelected THEN selectedImageIds \ {clickedId}
                      ELSE selectedImageIds \cup {clickedId}
    IN  IF topClickedImage.some \/ topClickedStroke.some
        THEN /\ StartDragging(coords, finalSelectedStrokeIds, finalSelectedImageIds)
             /\ selectedStrokeIds' = finalSelectedStrokeIds
             /\ selectedImageIds' = finalSelectedImageIds
             /\ UNCHANGED <<docVars, drawOptions, currentStrokeRef, selectionStartRef, isPanning,
                            previewStroke, selectionRect, uploads, pureVars>>
        ELSE /\ actionRef' = "selecting"
             /\ selectionStartRef' = Some(coords)
             /\ IF ~isMultiSelect
                THEN selectedImageIds' = {} /\ selectedStrokeIds' = {}
                ELSE UNCHANGED selVars
             /\ UNCHANGED <<docVars, drawOptions, currentStrokeRef, transformStartRef,
                            lastStrokeProperties, lastImageProperties, lastCoords,
                            animationFrameId, loopStrokes, isPanning, previewVars, uploads, pureVars>>

\* part 3 of handleMouseDown: a drawing tool
DownDraw(coords) ==
    LET newStroke == [id |-> LeastFree(UsedIds), tool |-> drawOptions.tool, color |-> drawOptions.color,
                      lineWidth |-> drawOptions.lineWidth,
                      points |-> IF drawOptions.tool \in {"pen", "eraser"} THEN <<coords>>
                                 ELSE <<coords, coords>>]
    IN  /\ actionRef' = "drawing"
        /\ selectedStrokeIds' = {}
        /\ selectedImageIds' = {}
        /\ currentStrokeRef' = Some(newStroke)
        /\ previewStroke' = Some(newStroke)
        /\ lastCoords' = Some(coords)
        /\ animationFrameId' = "drawing"
        /\ UNCHANGED <<docVars, drawOptions, transformStartRef, lastStrokeProperties,
                       lastImageProperties, loopStrokes, selectionStartRef, isPanning,
                       previewStrokes, previewImageTransforms, selectionRect, uploads, pureVars>>

\* handleMouseDown.  panKey: the middle button, Ctrl or Meta; shiftKey: Shift
handleMouseDown(coords, panKey, shiftKey) ==
    /\ Idle
    /\ CanEdit
    /\ IF ~HasCurrentProject THEN UNCHANGED vars
       ELSE IF panKey \/ drawOptions.tool = "hand"
       THEN /\ actionRef' = "panning"
            /\ isPanning' = TRUE
            /\ UNCHANGED <<docVars, selVars, drawOptions, currentStrokeRef, transformStartRef,
                           lastStrokeProperties, lastImageProperties, lastCoords, animationFrameId,
                           loopStrokes, selectionStartRef, previewVars, uploads, pureVars>>
       ELSE IF drawOptions.tool = "selection"
       THEN IF ImageHandleHit(coords) THEN DownImageHandle(coords)
            ELSE IF StrokeHandleHit(coords) THEN DownStrokeHandle(coords)
            ELSE IF InSelectionBox(coords)
            THEN /\ StartDragging(coords, selectedStrokeIds, selectedImageIds)
                 /\ UNCHANGED <<docVars, selVars, drawOptions, currentStrokeRef, selectionStartRef,
                                isPanning, previewStroke, selectionRect, uploads, pureVars>>
            ELSE DownEntity(coords, shiftKey)
       ELSE DownDraw(coords)

\* a move handler that writes the stroke in progress into the project
handleMouseMoveMutCommits(coords) ==
    /\ ~Idle
    /\ lastCoords' = Some(coords)
    /\ projects' = IF actionRef = "drawing" /\ currentStrokeRef.some /\ HasCurrentProject
                   THEN SetProjectStrokes(projects, currentProjectId,
                                          Append(currentProject.strokes, currentStrokeRef.val))
                   ELSE projects
    /\ UNCHANGED <<currentProjectId, history, historyIndex, commits, selVars, drawOptions,
                   actionRef, currentStrokeRef, transformStartRef, lastStrokeProperties,
                   lastImageProperties, animationFrameId, loopStrokes, selectionStartRef,
                   isPanning, previewVars, uploads, pureVars>>

\* handleMouseMove.  The hover state it sets is not part of the model.
handleMouseMove(coords) ==
    /\ ~Idle
    /\ actionRef \in {"rotating-strokes", "resizing-strokes"} /\ transformStartRef.some
          => StrokeGestureExact(coords, transformStartRef.val, actionRef, lastStrokeProperties)
    /\ actionRef \in {"rotating-image", "resizing-image"} /\ transformStartRef.some
          => ImageGestureExact(coords, transformStartRef.val, actionRef)
    /\ lastCoords' = Some(coords)
    /\ IF actionRef = "selecting" /\ selectionStartRef.some
       THEN LET x == selectionStartRef.val.x
                y == selectionStartRef.val.y
            IN  selectionRect' = Some(Rect(Min(x, coords.x), Min(y, coords.y),
                                           Abs(x - coords.x), Abs(y - coords.y)))
       ELSE UNCHANGED selectionRect
    /\ UNCHANGED <<docVars, selVars, drawOptions, actionRef, currentStrokeRef, transformStartRef,
                   lastStrokeProperties, lastImageProperties, animationFrameId, loopStrokes,
                   selectionStartRef, isPanning, previewStroke, previewStrokes,
                   previewImageTransforms, uploads, pureVars>>

\* one frame of drawingAnimationLoop
drawingAnimationLoop ==
    IF actionRef # "drawing" \/ ~currentStrokeRef.some \/ ~lastCoords.some
    THEN /\ animationFrameId' = "none"
         /\ loopStrokes' = <<>>
         /\ UNCHANGED <<docVars, selVars, drawOptions, actionRef, currentStrokeRef,
                        transformStartRef, lastStrokeProperties, lastImageProperties, lastCoords,
                        selectionStartRef, isPanning, previewVars, uploads, pureVars>>
    ELSE LET coords == lastCoords.val
             tool == currentStrokeRef.val.tool
             currentPoints == currentStrokeRef.val.points
             lastPoint == currentPoints[Len(currentPoints)]
             grows == tool \in {"pen", "eraser"} /\ lastPoint # coords
             updatedStroke ==
                 IF tool \in {"pen", "eraser"}
                 THEN IF grows THEN Some([currentStrokeRef.val EXCEPT !.points = Append(currentPoints, coords)])
                      ELSE None
                 ELSE Some([currentStrokeRef.val EXCEPT !.points = <<currentPoints[1], coords>>])
         IN  /\ grows => Len(currentPoints) < MaxPoints
             /\ IF updatedStroke.some
                THEN currentStrokeRef' = updatedStroke /\ previewStroke' = updatedStroke
                ELSE UNCHANGED <<currentStrokeRef, previewStroke>>
             /\ UNCHANGED <<docVars, selVars, drawOptions, actionRef, transformStartRef,
                            lastStrokeProperties, lastImageProperties, lastCoords, animationFrameId,
                            loopStrokes, selectionStartRef, isPanning, previewStrokes,
                            previewImageTransforms, selectionRect, uploads, pureVars>>

\* a drag that moves the images along x only
DraggedImageTransformsMutKeepsY(coords, startState) ==
    LET dx == coords.x - startState.startPoint.x
        ids == IF startState.imageIds.some
               THEN startState.imageIds.val \cap DOMAIN lastImageProperties ELSE {}
    IN  [id \in ids |-> [lastImageProperties[id] EXCEPT !.x = lastImageProperties[id].x + dx]]

\* the transforms of the dragged images at the pointer position coords
DraggedImageTransforms(coords, startState) ==
    LET dx == coords.x - startState.startPoint.x
        dy == coords.y - startState.startPoint.y
        ids == IF startState.imageIds.some
               THEN startState.imageIds.val \cap DOMAIN lastImageProperties ELSE {}
    IN  [id \in ids |-> [lastImageProperties[id] EXCEPT !.x = lastImageProperties[id].x + dx,
                                                        !.y = lastImageProperties[id].y + dy]]

\* one frame of transformAnimationLoop; it closed over the strokes of the
\* current project at the render that requested it (loopStrokes)
transformAnimationLoop ==
    IF ~transformStartRef.some \/ ~lastCoords.some
    THEN /\ animationFrameId' = "none"
         /\ loopStrokes' = <<>>
         /\ UNCHANGED <<docVars, selVars, drawOptions, actionRef, currentStrokeRef,
                        transformStartRef, lastStrokeProperties, lastImageProperties, lastCoords,
                        selectionStartRef, isPanning, previewVars, uploads, pureVars>>
    ELSE LET coords == lastCoords.val
             currentAction == actionRef
             st == transformStartRef.val
         IN  /\ IF currentAction = "dragging"
                THEN /\ previewStrokes' = Some(calculateTransformedStrokes(coords, transformStartRef,
                                                   currentAction, Some(loopStrokes)))
                     /\ previewImageTransforms' = Some(DraggedImageTransforms(coords, st))
                ELSE IF currentAction \in {"rotating-strokes", "resizing-strokes"}
                THEN /\ previewStrokes' = Some(calculateTransformedStrokes(coords, transformStartRef,
                                                   currentAction, Some(loopStrokes)))
                     /\ UNCHANGED previewImageTransforms
                ELSE IF currentAction = "rotating-image" /\ st.initialTransform.some /\ st.imageId.some
                THEN /\ previewImageTransforms' =
                            Some([id \in {st.imageId.val} |->
                                     rotateImage(st.initialTransform.val, st.startPoint, coords)])
                     /\ UNCHANGED previewStrokes
                ELSE IF currentAction = "resizing-image" /\ st.initialTransform.some
                        /\ st.handle # "" /\ st.imageId.some
                THEN /\ previewImageTransforms' =
                            Some([id \in {st.imageId.val} |->
                                     resizeImage(st.initialTransform.val, st.handle, st.startPoint, coords)])
                     /\ UNCHANGED previewStrokes
                ELSE UNCHANGED <<previewStrokes, previewImageTransforms>>
             /\ UNCHANGED <<docVars, selVars, drawOptions, actionRef, currentStrokeRef,
                            transformStartRef, lastStrokeProperties, lastImageProperties, lastCoords,
                            animationFrameId, loopStrokes, selectionStartRef, isPanning,
                            previewStroke, selectionRect, uploads, pureVars>>

\* the browser runs the requested animation frame
Tick ==
    /\ animationFrameId # "none"
    /\ IF animationFrameId = "drawing" THEN drawingAnimationLoop ELSE transformAnimationLoop

\* history[historyIndex] || { strokes: [], images: [] }
currentHistoryState ==
    IF historyIndex < Len(history) THEN history[historyIndex + 1] ELSE Snapshot(<<>>, <<>>)

\* what the pointer handlers leave alone whatever the gesture was
UpFrame == UNCHANGED <<drawOptions, lastStrokeProperties, lastImageProperties, lastCoords,
                       uploads, pureVars>>

\* case 'panning' of handleMouseUp
UpPanning ==
    /\ isPanning' = FALSE
    /\ UNCHANGED <<docVars, selVars, currentStrokeRef, transformStartRef, selectionStartRef,
                   previewVars>>

\* case 'drawing' of handleMouseUp: whether the finished stroke is committed
DrawingCommits(finishedStroke, erasure) ==
    IF finishedStroke.tool = "eraser"
    THEN /\ Len(finishedStroke.points) > 1
         /\ (erasure.strokesToDelete # {} \/ Len(erasure.strokesToAdd) > 0)
    ELSE IF finishedStroke.tool = "pen"
    THEN Len(finishedStroke.points) > 1
    ELSE (finishedStroke.points[2].x - finishedStroke.points[1].x)
            * (finishedStroke.points[2].x - finishedStroke.points[1].x)
         + (finishedStroke.points[2].y - finishedStroke.points[1].y)
            * (finishedStroke.points[2].y - finishedStroke.points[1].y) > 2 * 2

\* a finished eraser stroke is appended to the content like a pen stroke
DrawingStrokesMutKeepsEraser(finishedStroke, strokes, erasure) ==
    Append(SeqFilterIds(strokes, erasure.strokesToDelete) \o erasure.strokesToAdd, finishedStroke)

\* case 'drawing' of handleMouseUp: the strokes it commits
DrawingStrokes(finishedStroke, strokes, erasure) ==
    IF finishedStroke.tool = "eraser"
    THEN SeqFilterIds(strokes, erasure.strokesToDelete) \o erasure.strokesToAdd
    ELSE Append(strokes, finishedStroke)

\* the state the finished stroke leaves, given the result of applyErasure
FinishDrawing(finishedStroke, snapshot, erasure) ==
    IF DrawingCommits(finishedStroke, erasure)
    THEN /\ recordNewHistoryState(DrawingStrokes(finishedStroke, snapshot.strokes, erasure),
                                  snapshot.images)
         /\ projects' = SetProjectStrokes(projects, currentProjectId,
                            DrawingStrokes(finishedStroke, snapshot.strokes, erasure))
         /\ UNCHANGED currentProjectId
    ELSE UNCHANGED docVars

\* case 'drawing' of handleMouseUp
UpDrawing ==
    /\ IF HasCurrentProject /\ currentStrokeRef.some
       THEN FinishDrawing(currentStrokeRef.val, currentHistoryState,
                          applyErasure(currentStrokeRef.val, currentHistoryState.strokes, UsedIds))
       ELSE UNCHANGED docVars
    /\ previewStroke' = None
    /\ currentStrokeRef' = None
    /\ UNCHANGED <<selVars, transformStartRef, selectionStartRef, isPanning, previewStrokes,
                   previewImageTransforms, selectionRect>>

\* case 'selecting' of handleMouseUp.  fake: the event is the MouseEvent that
\* handleMouseLeave constructs, which has no nativeEvent, so reading
\* e.nativeEvent.ctrlKey throws and nothing after it runs
UpSelecting(isMultiSelect, fake) ==
    /\ IF selectionRect.some /\ HasCurrentProject
       THEN LET InRect(stroke) == /\ stroke.tool # "eraser"
                                  /\ getStrokeBounds(stroke).some
                                  /\ doRectsIntersect(selectionRect.val, getStrokeBounds(stroke).val)
                strokesInRect == {currentProject.strokes[i].id : i \in
                                     {j \in 1..Len(currentProject.strokes) : InRect(currentProject.strokes[j])}}
                imagesInRect == {currentProject.images[i].id : i \in
                                     {j \in 1..Len(currentProject.images) :
                                         doRectsIntersect(selectionRect.val,
                                             getTransformedImageBounds(currentProject.images[j].transform))}}
            IN  IF fake
                THEN UNCHANGED <<selVars, selectionStartRef, selectionRect>>
                ELSE /\ selectedStrokeIds' = IF isMultiSelect THEN selectedStrokeIds \cup strokesInRect
                                             ELSE strokesInRect
                     /\ selectedImageIds' = IF isMultiSelect THEN selectedImageIds \cup imagesInRect
                                            ELSE imagesInRect
                     /\ selectionStartRef' = None
                     /\ selectionRect' = None
       ELSE /\ selectionStartRef' = None
            /\ selectionRect' = None
            /\ UNCHANGED selVars
    /\ UNCHANGED <<docVars, currentStrokeRef, transformStartRef, isPanning, previewStroke,
                   previewStrokes, previewImageTransforms>>

\* a release that commits the strokes of the last frame shown
UpStrokesMutCommitsPreview(currentAction) ==
    /\ IF HasCurrentProject /\ lastCoords.some /\ transformStartRef.some
       THEN LET finalCoords == lastCoords.val
                startState == transformStartRef.val
                finalStrokes == IF previewStrokes.some THEN previewStrokes.val ELSE <<>>
                updatedStrokes == [i \in 1..Len(currentProject.strokes) |->
                                      IF HasStroke(finalStrokes, currentProject.strokes[i].id)
                                      THEN FindStroke(finalStrokes, currentProject.strokes[i].id)
                                      ELSE currentProject.strokes[i]]
                moved == DraggedImageTransforms(finalCoords, startState)
                updatedImages == IF currentAction = "dragging"
                                 THEN [i \in 1..Len(currentProject.images) |->
                                          IF currentProject.images[i].id \in DOMAIN moved
                                          THEN [currentProject.images[i] EXCEPT
                                                   !.transform = moved[currentProject.images[i].id]]
                                          ELSE currentProject.images[i]]
                                 ELSE currentProject.images
            IN  /\ projects' = SetProject(projects, currentProjectId, updatedStrokes, updatedImages)
                /\ recordNewHistoryState(updatedStrokes, updatedImages)
                /\ UNCHANGED currentProjectId
       ELSE UNCHANGED docVars
    /\ previewStrokes' = None
    /\ previewImageTransforms' = None
    /\ transformStartRef' = None
    /\ UNCHANGED <<selVars, currentStrokeRef, selectionStartRef, isPanning, previewStroke,
                   selectionRect>>

\* cases 'dragging', 'rotating-strokes' and 'resizing-strokes' of handleMouseUp
UpStrokes(currentAction) ==
    /\ IF HasCurrentProject /\ lastCoords.some /\ transformStartRef.some
       THEN LET finalCoords == lastCoords.val
                startState == transformStartRef.val
                finalStrokes == calculateTransformedStrokes(finalCoords, transformStartRef, currentAction,
                                                            Some(currentProject.strokes))
                updatedStrokes == [i \in 1..Len(currentProject.strokes) |->
                                      IF HasStroke(finalStrokes, currentProject.strokes[i].id)
                                      THEN FindStroke(finalStrokes, currentProject.strokes[i].id)
                                      ELSE currentProject.strokes[i]]
                moved == DraggedImageTransforms(finalCoords, startState)
                updatedImages == IF currentAction = "dragging"
                                 THEN [i \in 1..Len(currentProject.images) |->
                                          IF currentProject.images[i].id \in DOMAIN moved
                                          THEN [currentProject.images[i] EXCEPT
                                                   !.transform = moved[currentProject.images[i].id]]
                                          ELSE currentProject.images[i]]
                                 ELSE currentProject.images
            IN  /\ projects' = SetProject(projects, currentProjectId, updatedStrokes, updatedImages)
                /\ recordNewHistoryState(updatedStrokes, updatedImages)
                /\ UNCHANGED currentProjectId
       ELSE UNCHANGED docVars
    /\ previewStrokes' = None
    /\ previewImageTransforms' = None
    /\ transformStartRef' = None
    /\ UNCHANGED <<selVars, currentStrokeRef, selectionStartRef, isPanning, previewStroke,
                   selectionRect>>

\* cases 'resizing-image' and 'rotating-image' of handleMouseUp
UpImage(currentAction) ==
    /\ IF /\ HasCurrentProject /\ lastCoords.some /\ transformStartRef.some
          /\ transformStartRef.val.initialTransform.some /\ transformStartRef.val.imageId.some
       THEN LET finalCoords == lastCoords.val
                startState == transformStartRef.val
                initialTransform == startState.initialTransform.val
                imageId == startState.imageId.val
                finalTransform ==
                    IF currentAction = "rotating-image"
                    THEN rotateImage(initialTransform, startState.startPoint, finalCoords)
                    ELSE resizeImage(initialTransform, startState.handle, startState.startPoint,
                                     finalCoords)
                finalImages == [i \in 1..Len(currentProject.images) |->
                                   IF currentProject.images[i].id = imageId
                                   THEN [currentProject.images[i] EXCEPT !.transform = finalTransform]
                                   ELSE currentProject.images[i]]
            IN  /\ projects' = SetProjectImages(projects, currentProjectId, finalImages)
                /\ recordNewHistoryState(currentProject.strokes, finalImages)
                /\ UNCHANGED currentProjectId
       ELSE UNCHANGED docVars
    /\ previewImageTransforms' = None
    /\ transformStartRef' = None
    /\ UNCHANGED <<selVars, currentStrokeRef, selectionStartRef, isPanning, previewStroke,
                   previewStrokes, selectionRect>>

\* the body of handleMouseUp for the event e; isMultiSelect: Shift, Ctrl or
\* Meta is held
MouseUpBody(isMultiSelect, fake) ==
    /\ animationFrameId' = "none"
    /\ loopStrokes' = <<>>
    /\ actionRef' = "none"
    /\ UpFrame
    /\ IF actionRef = "panning" THEN UpPanning
       ELSE IF actionRef = "drawing" THEN UpDrawing
       ELSE IF actionRef = "selecting" THEN UpSelecting(isMultiSelect, fake)
       ELSE IF actionRef \in {"dragging", "rotating-strokes", "resizing-strokes"}
       THEN UpStrokes(actionRef)
       ELSE IF actionRef \in {"resizing-image", "rotating-image"} THEN UpImage(actionRef)
       ELSE UNCHANGED <<docVars, selVars, currentStrokeRef, transformStartRef, selectionStartRef,
                        isPanning, previewVars>>

\* handleMouseUp for a release of the pointer over the drawing surface
handleMouseUp(isMultiSelect) == MouseUpBody(isMultiSelect, FALSE)

\* a mouse leave that cancels the gesture: nothing is committed
handleMouseLeaveMutCancels ==
    IF actionRef \notin {"none", "panning"}
    THEN /\ animationFrameId' = "none"
         /\ loopStrokes' = <<>>
         /\ actionRef' = "none"
         /\ currentStrokeRef' = None
         /\ transformStartRef' = None
         /\ selectionStartRef' = None
         /\ previewStroke' = None
         /\ previewStrokes' = None
         /\ previewImageTransforms' = None
         /\ selectionRect' = None
         /\ UNCHANGED <<docVars, selVars, isPanning>>
         /\ UpFrame
    ELSE IF actionRef = "panning"
    THEN /\ isPanning' = FALSE
         /\ actionRef' = "none"
         /\ UNCHANGED <<docVars, selVars, drawOptions, currentStrokeRef, transformStartRef,
                        lastStrokeProperties, lastImageProperties, lastCoords, animationFrameId,
                        loopStrokes, selectionStartRef, previewVars, uploads, pureVars>>
    ELSE UNCHANGED vars

\* handleMouseLeave
handleMouseLeave ==
    IF actionRef \notin {"none", "panning"}
    THEN MouseUpBody(FALSE, TRUE)
    ELSE IF actionRef = "panning"
    THEN /\ isPanning' = FALSE
         /\ actionRef' = "none"
         /\ UNCHANGED <<docVars, selVars, drawOptions, currentStrokeRef, transformStartRef,
                        lastStrokeProperties, lastImageProperties, lastCoords, animationFrameId,
                        loopStrokes, selectionStartRef, previewVars, uploads, pureVars>>
    ELSE UNCHANGED vars

(***************************************************************************)
(* The whiteboard as a state machine                                       *)
(***************************************************************************)

\* the button goes down on a handle of the selection, with the selection tool
OnHandle(coords) ==
    /\ HasCurrentProject
    /\ drawOptions.tool = "selection"
    /\ ImageHandleHit(coords) \/ StrokeHandleHit(coords)

MouseDown ==
    \/ \E coords \in DownCoords, panKey \in BOOLEAN, shiftKey \in BOOLEAN :
          handleMouseDown(coords, panKey, shiftKey)
    \/ \E coords \in HandleCoords : OnHandle(coords) /\ handleMouseDown(coords, FALSE, FALSE)
MouseMove == \E coords \in Coords : handleMouseMove(coords)
MouseUp == \E isMultiSelect \in BOOLEAN : handleMouseUp(isMultiSelect)
PickTool == \E t \in Tools : SetTool(t)
SelectProject == \E i \in 1..Len(projects) : handleSelectProject(projects[i].id)
DeleteProject == \E i \in 1..Len(projects) : handleDeleteProject(projects[i].id)
UploadDone == \E u \in uploads : imageOnload(u)

Next ==
    \/ MouseDown
    \/ MouseMove
    \/ Tick
    \/ MouseUp
    \/ handleMouseLeave
    \/ handleUndo
    \/ handleRedo
    \/ KeyDelete
    \/ handleDelete
    \/ PickTool
    \/ handleNewProject
    \/ SelectProject
    \/ DeleteProject
    \/ handleImageUpload
    \/ UploadDone

Spec == Init /\ [][Next]_vars

(***************************************************************************)
(* applyErasure on its own: the eraser stroke and currentStrokes are drawn *)
(* from bounded sets and the function is applied once                      *)
(***************************************************************************)
MaxEraserPoints == 2   \* points of the eraser stroke
MaxStrokesIn    == 2   \* strokes of currentStrokes

\* the strokes currentStrokes is drawn from
TargetsIn ==
    {[id |-> 1, tool |-> "pen", color |-> "c1", lineWidth |-> 2,
      points |-> <<Pt(0, 0), Pt(10, 0), Pt(20, 0), Pt(30, 0)>>],
     [id |-> 2, tool |-> "pen", color |-> "c2", lineWidth |-> 2,
      points |-> <<Pt(0, 0), Pt(10, 0)>>],
     [id |-> 3, tool |-> "line", color |-> "c3", lineWidth |-> 2,
      points |-> <<Pt(0, 10), Pt(30, 10)>>],
     [id |-> 4, tool |-> "rectangle", color |-> "c4", lineWidth |-> 2,
      points |-> <<Pt(0, 0), Pt(20, 10)>>],
     [id |-> 5, tool |-> "pen", color |-> "c5", lineWidth |-> 4,
      points |-> <<Pt(0, 20), Pt(12, 25)>>]}

\* the points and widths of the eraser stroke
EraserPointsIn == {Pt(15, 0), Pt(5, 2), Pt(15, 10), Pt(0, 5)}
EraserWidthsIn == {4, 8}

SeqsUpTo(S, n) == UNION {[1..k -> S] : k \in 0..n}

ErasersIn ==
    {[id |-> 6, tool |-> "eraser", color |-> "#000000", lineWidth |-> w, points |-> ps] :
        w \in EraserWidthsIn, ps \in SeqsUpTo(EraserPointsIn, MaxEraserPoints) \ {<<>>}}

StrokeListsIn ==
    {l \in SeqsUpTo(TargetsIn, MaxStrokesIn) : \A i, j \in 1..Len(l) : i # j => l[i].id # l[j].id}

InitErase ==
    /\ InitApp
    /\ eraserIn \in {Some(e) : e \in ErasersIn}
    /\ strokesIn \in StrokeListsIn
    /\ erasureOut = None
    /\ callIn = None
    /\ callOut = None

\* the call applyErasure(eraserStroke, currentStrokes) of handleMouseUp
CallApplyErasure ==
    /\ eraserIn.some
    /\ ~erasureOut.some
    /\ erasureOut' = Some(applyErasure(eraserIn.val, strokesIn,
                                       IdsOfStrokes(strokesIn) \cup {eraserIn.val.id}))
    /\ UNCHANGED <<docVars, selVars, drawOptions, refVars, previewVars, uploads, eraserIn, strokesIn,
                   callIn, callOut>>

NextErase == CallApplyErasure

SpecErase == InitErase /\ [][NextErase]_vars

\* the vertices of the shape a stroke denotes, as isPointOnStroke and the
\* renderer read its points, in doubled coordinates (the apex of a triangle
\* lies halfway between two whole numbers); for a circle, its centre
ShapeVertices(stroke) ==
    LET start == stroke.points[1]
        end == stroke.points[2]
    IN  IF stroke.tool \in {"line", "dashed-line"}
        THEN {Pt(2 * start.x, 2 * start.y), Pt(2 * end.x, 2 * end.y)}
        ELSE IF stroke.tool = "rectangle"
        THEN {Pt(2 * start.x, 2 * start.y), Pt(2 * end.x, 2 * start.y),
              Pt(2 * end.x, 2 * end.y), Pt(2 * start.x, 2 * end.y)}
        ELSE IF stroke.tool = "triangle"
        THEN {Pt(Min(start.x, end.x) + Max(start.x, end.x), 2 * Min(start.y, end.y)),
              Pt(2 * Max(start.x, end.x), 2 * Max(start.y, end.y)),
              Pt(2 * Min(start.x, end.x), 2 * Max(start.y, end.y))}
        ELSE IF stroke.tool = "circle"
        THEN {Pt(2 * start.x, 2 * start.y)}
        ELSE {Pt(2 * stroke.points[i].x, 2 * stroke.points[i].y) : i \in 1..Len(stroke.points)}

\* the square of the radius of a circle, in doubled coordinates
RadiusSq(stroke) ==
    4 * ((stroke.points[2].x - stroke.points[1].x) * (stroke.points[2].x - stroke.points[1].x)
         + (stroke.points[2].y - stroke.points[1].y) * (stroke.points[2].y - stroke.points[1].y))

(***************************************************************************)
(* The transform computations of handleMouseUp on their own                *)
(***************************************************************************)

MaxSelected == 2   \* strokes of the selection

\* the strokes the selection is drawn from, one of each tool
ShapesIn ==
    {[id |-> 1, tool |-> "pen", color |-> "c1", lineWidth |-> 100,
      points |-> <<Pt(0, 0), Pt(300, 200), Pt(100, 400)>>],
     [id |-> 2, tool |-> "line", color |-> "c2", lineWidth |-> 200,
      points |-> <<Pt(300, 0), Pt(0, 400)>>],
     [id |-> 3, tool |-> "dashed-line", color |-> "c3", lineWidth |-> 100,
      points |-> <<Pt(0, 400), Pt(300, 0)>>],
     [id |-> 4, tool |-> "rectangle", color |-> "c4", lineWidth |-> 100,
      points |-> <<Pt(300, 400), Pt(0, 0)>>],
     [id |-> 5, tool |-> "circle", color |-> "c5", lineWidth |-> 200,
      points |-> <<Pt(200, 200), Pt(300, 200)>>],
     [id |-> 6, tool |-> "triangle", color |-> "c6", lineWidth |-> 100,
      points |-> <<Pt(0, 0), Pt(300, 400)>>]}

\* the selections: strokes in the order of the project
SelectionsIn ==
    {l \in SeqsUpTo(ShapesIn, MaxSelected) \ {<<>>} :
        \A i, j \in 1..Len(l) : i < j => l[i].id < l[j].id}

\* the selected images of a drag
ImagesIn ==
    {<<>>, <<[id |-> 7, dataUrl |-> "data",
              transform |-> [x |-> 50, y |-> 60, width |-> 40, height |-> 20, rotation |-> 1]]>>}

DragStartsIn == {Pt(0, 0), Pt(130, 40)}
DragCoordsIn == {Pt(0, 0), Pt(130, 40), Pt(170, -20), Pt(-50, 110)}

\* the drags of a selection: transformStartRef as handleMouseDown sets it
DragCallsIn(sel) ==
    {[action |-> "dragging", strokes |-> sel, images |-> imgs, coords |-> c,
      start |-> TransformStart(s, None, None, None, "", None, Some(IdsOfStrokes(sel)),
                               Some(IdsOfStrokes(imgs)))] :
        imgs \in ImagesIn, s \in DragStartsIn, c \in DragCoordsIn}

\* the corner of the bounds a resize handle sits at, and the pointer
\* positions of a resize relative to the anchor a and the start point s
CornersOf(b) == {Pt(b.x, b.y), Pt(b.x + b.width, b.y), Pt(b.x, b.y + b.height),
                 Pt(b.x + b.width, b.y + b.height)}
ResizeCoordsIn(a, s) ==
    {a, s, Pt(a.x, a.y + 2),
     Pt(a.x + (s.x - a.x) \div 100, a.y + (s.y - a.y) \div 100),
     Pt(a.x + (s.x - a.x) \div 2, a.y + (s.y - a.y) \div 2),
     Pt(a.x - (s.x - a.x) \div 2, a.y - (s.y - a.y) \div 2),
     Pt(a.x + 2 * (s.x - a.x), a.y + 2 * (s.y - a.y))}

\* the resizes of a selection, from each corner handle
ResizeCallsIn(sel) ==
    LET b == getBounds(sel).val
    IN  {[action |-> "resizing-strokes", strokes |-> sel, images |-> <<>>, coords |-> c,
          start |-> TransformStart(s, None, None, Some(b), CornerClicked(s, b), None,
                                   Some(IdsOfStrokes(sel)), None)] :
            s \in CornersOf(b),
            c \in UNION {ResizeCoordsIn(Pt(2 * b.x + b.width - t.x, 2 * b.y + b.height - t.y), t) :
                            t \in CornersOf(b)}}

\* the rotations of a selection, from the rotation handle to the four axes
\* through the centre of the bounds
RotateCallsIn(sel) ==
    LET b == getBounds(sel).val
        cx == (2 * b.x + b.width) \div 2
        cy == (2 * b.y + b.height) \div 2
        s == Pt(cx, b.y - SelectionPadding - ROTATION_HANDLE_OFFSET)
    IN  {[action |-> "rotating-strokes", strokes |-> sel, images |-> <<>>, coords |-> c,
          start |-> TransformStart(s, None,
                                   Some([x |-> 2 * b.x + b.width, y |-> 2 * b.y + b.height, d |-> 2]),
                                   None, "", None, Some(IdsOfStrokes(sel)), None)] :
            c \in {s, Pt(cx + 100, cy), Pt(cx, cy + 100), Pt(cx - 100, cy)}}

\* the images of a single-image resize, upright and turned by a quarter
ResizedImagesIn ==
    {[id |-> 7, dataUrl |-> "data",
      transform |-> [x |-> 100, y |-> 100, width |-> w, height |-> 20, rotation |-> r]] :
        w \in {20, 40}, r \in {0, 1}}

\* how far the pointer of a single-image resize moves
ResizeDeltasIn ==
    {Pt(0, 0), Pt(6, 0), Pt(20, 10), Pt(-20, -10), Pt(10, -20), Pt(-10, 20), Pt(40, 20),
     Pt(-40, -20), Pt(20, -40), Pt(-20, 40)}

\* the resizes of a single image: from the world position of each corner
ResizeImageCallsIn(img) ==
    LET t == img.transform
    IN  {[action |-> "resizing-image", strokes |-> <<>>, images |-> <<img>>,
          coords |-> Pt(s.x + d.x, s.y + d.y),
          start |-> TransformStart(s, Some(t), None, None, getHandleAtPoint(s, t), Some(img.id),
                                   None, None)] :
            s \in {Pt(t.x + sx * a, t.y + sy * b) :
                      sx \in {-1, 1}, sy \in {-1, 1},
                      a \in {t.width \div 2, t.height \div 2},
                      b \in {t.width \div 2, t.height \div 2}},
            d \in ResizeDeltasIn}

\* the calls whose result the model represents
TransformCallsIn ==
    {call \in UNION {DragCallsIn(sel) \cup ResizeCallsIn(sel) \cup RotateCallsIn(sel) :
                        sel \in SelectionsIn}
               \cup UNION {ResizeImageCallsIn(img) : img \in ResizedImagesIn} :
        /\ call.action = "resizing-image" =>
               /\ call.start.handle \in {"tl", "tr", "bl", "br"}
               /\ ImageGestureExact(call.coords, call.start, call.action)
        /\ call.action = "resizing-strokes" =>
               /\ call.start.handle # ""
               /\ call.coords \in
                     ResizeCoordsIn(TransformParams(call.coords, call.start, call.action).anchor.val,
                                    call.start.startPoint)
        /\ call.action = "rotating-strokes" =>
               OnRotHandle(call.start.startPoint, getBounds(call.strokes).val)
        /\ StrokeGestureExact(call.coords, call.start, call.action, StrokeProps(call.strokes))}

InitTransform ==
    /\ callIn \in {Some(call) : call \in TransformCallsIn}
    /\ callOut = None
    /\ lastStrokeProperties = StrokeProps(callIn.val.strokes)
    /\ lastImageProperties = ImageProps(callIn.val.images)
    /\ projects = <<[id |-> 1, strokes |-> <<>>, images |-> <<>>]>>
    /\ currentProjectId = 1
    /\ history = <<Snapshot(<<>>, <<>>)>>
    /\ historyIndex = 0
    /\ selectedStrokeIds = {}
    /\ selectedImageIds = {}
    /\ drawOptions = [color |-> "#000000", lineWidth |-> 5, tool |-> "pen"]
    /\ actionRef = "none"
    /\ currentStrokeRef = None
    /\ transformStartRef = None
    /\ lastCoords = None
    /\ animationFrameId = "none"
    /\ loopStrokes = <<>>
    /\ selectionStartRef = None
    /\ isPanning = FALSE
    /\ previewStroke = None
    /\ previewStrokes = None
    /\ previewImageTransforms = None
    /\ selectionRect = None
    /\ uploads = {}
    /\ commits = 0
    /\ eraserIn = None
    /\ strokesIn = <<>>
    /\ erasureOut = None

\* the calls of handleMouseUp: calculateTransformedStrokes(finalCoords,
\* startState, currentAction), for a drag the transforms of the images, and
\* for the resize of a single image its final transform
CallTransform ==
    /\ callIn.some
    /\ ~callOut.some
    /\ callOut' = Some([strokes |-> calculateTransformedStrokes(callIn.val.coords,
                                        Some(callIn.val.start), callIn.val.action,
                                        Some(callIn.val.strokes)),
                        images |-> IF callIn.val.action = "dragging"
                                   THEN DraggedImageTransforms(callIn.val.coords, callIn.val.start)
                                   ELSE IF callIn.val.action = "resizing-image"
                                   THEN [id \in {callIn.val.start.imageId.val} |->
                                            resizeImage(callIn.val.start.initialTransform.val,
                                                        callIn.val.start.handle,
                                                        callIn.val.start.startPoint,
                                                        callIn.val.coords)]
                                   ELSE EmptyMap])
    /\ UNCHANGED <<docVars, selVars, drawOptions, refVars, previewVars, uploads, eraserIn, strokesIn,
                   erasureOut, callIn>>

NextTransform == CallTransform

SpecTransform == InitTransform /\ [][NextTransform]_vars

(***************************************************************************)
(* getStrokeBounds and isPointOnStroke on strokes of fewer than two points *)
(***************************************************************************)

MaxShortPoints == 1   \* points of the stroke

DrawingTools == {"pen", "eraser", "rectangle", "circle", "line", "triangle", "dashed-line"}

\* the strokes, the points tested against them and the tolerances (doubled)
ShortStrokesIn ==
    {[id |-> 1, tool |-> t, color |-> "c1", lineWidth |-> 4, points |-> ps] :
        t \in DrawingTools, ps \in SeqsUpTo({Pt(0, 0), Pt(10, 5)}, MaxShortPoints)}
HitPointsIn == {Pt(0, 0), Pt(10, 5), Pt(50, 50)}
TolerancesIn == {2 * HitTolerance, 4 * HitTolerance}

InitShort ==
    /\ InitApp
    /\ eraserIn = None
    /\ strokesIn = <<>>
    /\ erasureOut = None
    /\ callIn \in {Some([stroke |-> st, point |-> pt, tolerance2 |-> tol, action |-> "hit-test"]) :
                      st \in ShortStrokesIn, pt \in HitPointsIn, tol \in TolerancesIn}
    /\ callOut = None

\* the calls getStrokeBounds(stroke) and isPointOnStroke(point, stroke,
\* tolerance); hit is "TypeError" when the call throws
CallShort ==
    /\ callIn.some
    /\ ~callOut.some
    /\ callOut' = Some([bounds |-> getStrokeBounds(callIn.val.stroke),
                        hit |-> IF isPointOnStrokeThrows(callIn.val.stroke) THEN "TypeError"
                                ELSE IF isPointOnStroke(callIn.val.point, callIn.val.stroke,
                                                        callIn.val.tolerance2)
                                THEN "true" ELSE "false"])
    /\ UNCHANGED <<docVars, selVars, drawOptions, refVars, previewVars, uploads, eraserIn, strokesIn,
                   erasureOut, callIn>>

NextShort == CallShort

SpecShort == InitShort /\ [][NextShort]_vars

(***************************************************************************)
(* Properties of the history                                               *)
(***************************************************************************)

\* C1: in every reachable state the snapshot at historyIndex exists and equals
\* the strokes and images of the current project
C1_SnapshotIsCurrentProject ==
    HasCurrentProject =>
        /\ historyIndex \in 0..(Len(history) - 1)
        /\ history[historyIndex + 1] = Snapshot(currentProject.strokes, currentProject.images)

\* a step that appends a snapshot (a reset changes the current project)
CommitStep == commits' = commits + 1 /\ currentProjectId' = currentProjectId

\* C2: a commit at index i of history h yields h[0..i] followed by the new
\* snapshot, with the index at the last entry (so that nothing lies beyond it
\* for redo)
C2_CommitIsLinear ==
    [][CommitStep =>
          /\ historyIndex < Len(history)
          /\ history' = SubSeq(history, 1, historyIndex + 1) \o <<history'[Len(history')]>>
          /\ historyIndex' = Len(history') - 1]_vars

\* C3: undo at index 0 changes nothing; at an index i > 0 it sets the index to
\* i - 1, installs snapshot i - 1 as the current project's content and leaves
\* the history list alone
C3_Undo ==
    IF historyIndex = 0
    THEN ENABLED (handleUndo /\ UNCHANGED <<projects, history, historyIndex, selVars>>)
    ELSE ENABLED (/\ handleUndo
                  /\ historyIndex' = historyIndex - 1
                  /\ history' = history
                  /\ currentProject'.strokes = history[historyIndex].strokes
                  /\ currentProject'.images = history[historyIndex].images)

\* C4: redo at the last index changes nothing (history, index, project,
\* selection); at an index i below it, it sets the index to i + 1, installs
\* snapshot i + 1 as the current project's content and leaves the history list
\* alone
C4_Redo ==
    /\ historyIndex = Len(history) - 1 =>
          ENABLED (handleRedo /\ UNCHANGED <<projects, history, historyIndex, selVars>>)
    /\ historyIndex < Len(history) - 1 =>
          ENABLED (/\ handleRedo
                   /\ historyIndex' = historyIndex + 1
                   /\ history' = history
                   /\ currentProject'.strokes = history[historyIndex + 2].strokes
                   /\ currentProject'.images = history[historyIndex + 2].images)

\* a state in which redo advances to a snapshot that differs from the project
C4_RedoAdvances ==
    /\ historyIndex < Len(history) - 1
    /\ history[historyIndex + 2] # history[historyIndex + 1]
    /\ ENABLED (handleRedo /\ projects' # projects)

\* C5: a step that changes the current project (create, switch, delete the
\* current one) leaves a history of exactly one snapshot, the content of the
\* project that is now current, with the index at 0
C5_ProjectChangeResetsHistory ==
    [][currentProjectId' # currentProjectId =>
          /\ historyIndex' = 0
          /\ history' = <<Snapshot(currentProject'.strokes, currentProject'.images)>>]_vars

\* the history has been reset to the content of a project that is not empty
C5_ResetToContent ==
    /\ Len(history) = 1
    /\ historyIndex = 0
    /\ history[1].strokes # <<>>
    /\ history[1] = Snapshot(currentProject.strokes, currentProject.images)

(***************************************************************************)
(* Properties of the gestures                                              *)
(***************************************************************************)

GestureActions == {"drawing", "dragging", "rotating-strokes", "resizing-strokes",
                   "rotating-image", "resizing-image"}

\* the pointer leaves the surface during a gesture that draws, erases, drags,
\* rotates or resizes
LeaveStep == actionRef \in GestureActions /\ handleMouseLeave

C7_OnlyGestureEndCommits ==
    [][/\ (MouseDown \/ MouseMove \/ Tick) => UNCHANGED <<projects, history, historyIndex>>
       /\ (actionRef # "none" /\ (MouseUp \/ handleMouseLeave)) =>
             \/ UNCHANGED <<projects, history, historyIndex>>
             \/ /\ historyIndex' = historyIndex + 1
                /\ \E k \in 0..Len(history) :
                      history' = SubSeq(history, 1, k) \o <<history'[Len(history')]>>]_vars

\* a drag in progress whose preview, after a tick, differs from the project
C7_PreviewAheadOfProject ==
    /\ actionRef = "dragging"
    /\ previewStrokes.some
    /\ \E i \in 1..Len(previewStrokes.val) :
          previewStrokes.val[i] \notin Range(currentProject.strokes)
    /\ history[historyIndex + 1].strokes = currentProject.strokes

(***************************************************************************)
(* Properties of applyErasure                                              *)
(***************************************************************************)

\* the strokes of the project after the erasure, as handleMouseUp composes them
ErasureResult == DrawingStrokes(eraserIn.val, strokesIn, erasureOut.val)

\* the vertices and the 1-unit samples of the segments of a stroke
CenterlinePoints(stroke) ==
    {Exact(stroke.points[i]) : i \in 1..Len(stroke.points)}
    \cup UNION {{Interpolated(Segments(stroke)[j].p1, Segments(stroke)[j].p2, k,
                              NumSteps(Segments(stroke)[j].p1, Segments(stroke)[j].p2)) :
                    k \in 0..NumSteps(Segments(stroke)[j].p1, Segments(stroke)[j].p2)} :
                j \in 1..Len(Segments(stroke))}

\* C8: no vertex and no 1-unit sample of a stroke of the result lies inside the
\* erased area (isPointErased with the stroke's own radius)
C8_NoInkInsideErasedArea ==
    erasureOut.some =>
        \A i \in 1..Len(ErasureResult) :
            ErasureResult[i].tool # "eraser" =>
                \A p \in CenterlinePoints(ErasureResult[i]) :
                    ~isPointErased(p, eraserIn.val, ErasureResult[i].lineWidth)

\* the sampled point p lies on the centerline of the pen stroke t
OnCenterline(p, t) ==
    \E j \in 1..(Len(t.points) - 1) :
        LET q == pDistanceToSegmentSquared(p, t.points[j], t.points[j + 1])
        IN  q.c = 0 /\ q.n = 0

\* sample k of the n steps of the segment seg, and its neighbours on the
\* segment, lie outside the erased area
ClearOfErasedArea(seg, k, n, stroke) ==
    \A m \in {k - 1, k, k + 1} \cap 0..n :
        ~isPointErased(Interpolated(seg.p1, seg.p2, m, n), eraserIn.val, stroke.lineWidth)

\* C9: of a pen stroke that is cut, every 1-unit sample that is at least one
\* sampling step away from the erased area along its segment lies on one of
\* the fragments that replace the stroke
C9_PenInkOutsidePreserved ==
    erasureOut.some =>
        \A i \in 1..Len(strokesIn) :
            (strokesIn[i].tool = "pen" /\ strokesIn[i].id \in erasureOut.val.strokesToDelete) =>
                \A j \in 1..Len(Segments(strokesIn[i])) :
                    LET seg == Segments(strokesIn[i])[j]
                        n == NumSteps(seg.p1, seg.p2)
                    IN  \A k \in 0..n :
                            ClearOfErasedArea(seg, k, n, strokesIn[i]) =>
                                \E a \in 1..Len(erasureOut.val.strokesToAdd) :
                                    /\ erasureOut.val.strokesToAdd[a].color = strokesIn[i].color
                                    /\ OnCenterline(Interpolated(seg.p1, seg.p2, k, n),
                                                    erasureOut.val.strokesToAdd[a])

\* the bounding boxes lie apart along the x axis or along the y axis
BoxesApart(a, b) ==
    \/ a.x + a.width < b.x
    \/ b.x + b.width < a.x
    \/ a.y + a.height < b.y
    \/ b.y + b.height < a.y

\* C10: a stroke of currentStrokes whose bounding box lies apart from the
\* eraser's is not deleted, has no replacement, and is in the result as it was
C10_ApartStrokeUntouched ==
    erasureOut.some =>
        \A i \in 1..Len(strokesIn) :
            BoxesApart(getStrokeBounds(eraserIn.val).val, getStrokeBounds(strokesIn[i]).val) =>
                /\ strokesIn[i].id \notin erasureOut.val.strokesToDelete
                /\ \A a \in 1..Len(erasureOut.val.strokesToAdd) :
                      erasureOut.val.strokesToAdd[a].color # strokesIn[i].color
                /\ strokesIn[i] \in Range(ErasureResult)

\* an erasure that cuts one stroke and passes over another whose box lies apart
C10_ApartStrokeBesideCut ==
    /\ erasureOut.some
    /\ erasureOut.val.strokesToDelete # {}
    /\ \E i \in 1..Len(strokesIn) :
          /\ BoxesApart(getStrokeBounds(eraserIn.val).val, getStrokeBounds(strokesIn[i]).val)
          /\ strokesIn[i] \in Range(ErasureResult)

(***************************************************************************)
(* Properties of the eraser gesture                                        *)
(***************************************************************************)

\* the release that ends an eraser gesture of one point (press and release
\* without pointer movement) over ink of the content: some vertex of a stroke
\* of the snapshot lies within the combined radius of that point
SinglePointErase ==
    /\ actionRef = "drawing"
    /\ HasCurrentProject
    /\ currentStrokeRef.some
    /\ currentStrokeRef.val.tool = "eraser"
    /\ Len(currentStrokeRef.val.points) = 1
    /\ \E i \in 1..Len(currentHistoryState.strokes) :
          LET stroke == currentHistoryState.strokes[i]
          IN  /\ stroke.tool # "eraser"
              /\ \E j \in 1..Len(stroke.points) :
                    isPointErased(Exact(stroke.points[j]), currentStrokeRef.val, stroke.lineWidth)
    /\ MouseUp

\* C11: completing an eraser gesture of a single point over ink removes that
\* ink (no vertex of a stroke of the project is left within the combined
\* radius of the point) and commits the result to the history
C11_SinglePointEraserErases ==
    [][SinglePointErase =>
          /\ CommitStep
          /\ \A i \in 1..Len(currentProject'.strokes) :
                \A j \in 1..Len(currentProject'.strokes[i].points) :
                    ~isPointErased(Exact(currentProject'.strokes[i].points[j]),
                                   currentStrokeRef.val,
                                   currentProject'.strokes[i].lineWidth)]_vars

\* no stroke of the sequence was drawn with the eraser
NoEraserStroke(strokes) == \A i \in 1..Len(strokes) : strokes[i].tool # "eraser"

\* the eraser stroke of the gesture in progress, if there is one
ErasingNow == currentStrokeRef.some /\ currentStrokeRef.val.tool = "eraser"

\* C12: no stroke with tool 'eraser' is in the stroke list of a project or in
\* a snapshot of the history, and an eraser stroke handed to applyErasure among
\* its targets is skipped: it is neither deleted nor cut, and the result is the
\* one for the other targets alone
C12_NoEraserStrokeKept ==
    /\ \A i \in 1..Len(projects) : NoEraserStroke(projects[i].strokes)
    /\ \A i \in 1..Len(history) : NoEraserStroke(history[i].strokes)
    /\ ErasingNow =>
          applyErasure(currentStrokeRef.val,
                       Append(currentHistoryState.strokes, currentStrokeRef.val), UsedIds)
            = applyErasure(currentStrokeRef.val, currentHistoryState.strokes, UsedIds)

\* an eraser gesture has been committed: the snapshot at the index is the
\* erasure of the snapshot before it by the eraser stroke from the press
\* point to the last pointer position, ink was removed and the images were
\* kept, with no entity ever picked for a transform gesture
C12_EraserCommitted ==
    /\ drawOptions.tool = "eraser"
    /\ actionRef = "none"
    /\ lastCoords.some
    /\ historyIndex >= 1
    /\ historyIndex < Len(history)
    /\ LET eraser == [id |-> 0, tool |-> "eraser", color |-> drawOptions.color,
                      lineWidth |-> drawOptions.lineWidth,
                      points |-> <<Pt(0, 0), lastCoords.val>>]
           before == history[historyIndex].strokes
           erasure == applyErasure(eraser, before, UsedIds)
       IN  /\ lastCoords.val # Pt(0, 0)
           /\ erasure.strokesToDelete # {}
           /\ history[historyIndex + 1].strokes = DrawingStrokes(eraser, before, erasure)
           /\ currentProject.strokes = history[historyIndex + 1].strokes
    /\ history[historyIndex + 1].images # <<>>
    /\ history[historyIndex + 1].images = history[historyIndex].images
    /\ lastStrokeProperties = EmptyMap
    /\ lastImageProperties = EmptyMap

(***************************************************************************)
(* Properties of the selection                                             *)
(***************************************************************************)

\* a delete-selection or clear-canvas that takes effect
DeleteTakesEffect == (handleDelete \/ KeyDelete) /\ CommitStep

\* C13: after every step that changes which project is current (new project,
\* select another project, delete the current project) and after every
\* delete-selection or clear-canvas that takes effect, both selection sets are
\* empty
C13_SelectionEmptyAfterChange ==
    [][(currentProjectId' # currentProjectId \/ DeleteTakesEffect) =>
          (selectedStrokeIds' = {} /\ selectedImageIds' = {})]_vars

\* an undo or a redo that changes the history index
UndoRedoStep == (handleUndo \/ handleRedo) /\ historyIndex' # historyIndex

\* the ids of the strokes and images of a snapshot
IdsOfSnapshot(snapshot) == IdsOfStrokes(snapshot.strokes) \cup IdsOfStrokes(snapshot.images)

\* C14: after every undo or redo that changes the history index both
\* selection sets are empty, so no selected id is absent from the restored
\* snapshot
C14_UndoRedoClearSelection ==
    [][UndoRedoStep =>
          /\ selectedStrokeIds' = {}
          /\ selectedImageIds' = {}
          /\ (selectedStrokeIds' \cup selectedImageIds') \subseteq IdsOfSnapshot(history'[historyIndex' + 1])]_vars

\* an undo has restored a snapshot that lacks an object of the snapshot after
\* it, and nothing is selected
C14_UndoneWithNothingSelected ==
    /\ HasCurrentProject
    /\ historyIndex < Len(history) - 1
    /\ Snapshot(currentProject.strokes, currentProject.images) = history[historyIndex + 1]
    /\ IdsOfSnapshot(history[historyIndex + 2]) \ IdsOfSnapshot(history[historyIndex + 1]) # {}
    /\ selectedStrokeIds = {}
    /\ selectedImageIds = {}

(***************************************************************************)
(* Properties of the transform gestures                                    *)
(***************************************************************************)

StrokeActions == {"dragging", "rotating-strokes", "resizing-strokes"}
ImageActions == {"rotating-image", "resizing-image"}

\* a transform gesture is in progress, with its start state and a pointer position
Transforming ==
    /\ actionRef \in StrokeActions \cup ImageActions
    /\ HasCurrentProject
    /\ transformStartRef.some
    /\ lastCoords.some

\* the step that ends a transform gesture: a release or a leave
ReleaseStep == Transforming /\ (MouseUp \/ handleMouseLeave)

\* the strokes transformAnimationLoop shows for the pointer position coords
PreviewStrokesAt(coords) ==
    IF actionRef \in StrokeActions
    THEN calculateTransformedStrokes(coords, transformStartRef, actionRef, Some(loopStrokes))
    ELSE <<>>

\* the image transforms transformAnimationLoop shows for the pointer position coords
PreviewImagesAt(coords) ==
    LET st == transformStartRef.val
    IN  IF actionRef = "dragging" THEN DraggedImageTransforms(coords, st)
        ELSE IF actionRef = "rotating-image" /\ st.initialTransform.some /\ st.imageId.some
        THEN [id \in {st.imageId.val} |-> rotateImage(st.initialTransform.val, st.startPoint, coords)]
        ELSE IF actionRef = "resizing-image" /\ st.initialTransform.some /\ st.handle # ""
                /\ st.imageId.some
        THEN [id \in {st.imageId.val} |->
                 resizeImage(st.initialTransform.val, st.handle, st.startPoint, coords)]
        ELSE EmptyMap

\* the content after is the content before with the strokes and the image
\* transforms of the preview put in place of those with the same ids
CommitsPreview(before, after, strokes, transforms) ==
    /\ Len(after.strokes) = Len(before.strokes)
    /\ Len(after.images) = Len(before.images)
    /\ \A i \in 1..Len(before.strokes) :
          after.strokes[i] = IF HasStroke(strokes, before.strokes[i].id)
                             THEN FindStroke(strokes, before.strokes[i].id)
                             ELSE before.strokes[i]
    /\ \A i \in 1..Len(before.images) :
          after.images[i] = IF before.images[i].id \in DOMAIN transforms
                            THEN [before.images[i] EXCEPT !.transform = transforms[before.images[i].id]]
                            ELSE before.images[i]

Translated(before, after, dx, dy) ==
    /\ after.id = before.id
    /\ after.tool = before.tool
    /\ after.color = before.color
    /\ after.lineWidth = before.lineWidth
    /\ Len(after.points) = Len(before.points)
    /\ \A j \in 1..Len(before.points) :
          after.points[j] = Pt(before.points[j].x + dx, before.points[j].y + dy)

\* C16: a drag with start point s and final point c moves every point of
\* every selected stroke by exactly c - s and the centre of every selected
\* image by c - s; tool, point count, color and lineWidth of the strokes and
\* width, height and rotation of the images are unchanged
C16_DragTranslates ==
    (callOut.some /\ callIn.val.action = "dragging") =>
        LET dx == callIn.val.coords.x - callIn.val.start.startPoint.x
            dy == callIn.val.coords.y - callIn.val.start.startPoint.y
        IN  /\ Len(callOut.val.strokes) = Len(callIn.val.strokes)
            /\ \A i \in 1..Len(callIn.val.strokes) :
                  Translated(callIn.val.strokes[i], callOut.val.strokes[i], dx, dy)
            /\ DOMAIN callOut.val.images = IdsOfStrokes(callIn.val.images)
            /\ \A i \in 1..Len(callIn.val.images) :
                  LET before == callIn.val.images[i].transform
                      after == callOut.val.images[callIn.val.images[i].id]
                  IN  /\ after.x = before.x + dx
                      /\ after.y = before.y + dy
                      /\ after.width = before.width
                      /\ after.height = before.height
                      /\ after.rotation = before.rotation

\* a drag of two strokes, a triangle among them, and an image has been
\* computed for a pointer that moved along both axes
C16_DraggedBothAxes ==
    /\ callOut.some
    /\ callIn.val.action = "dragging"
    /\ callIn.val.coords.x # callIn.val.start.startPoint.x
    /\ callIn.val.coords.y # callIn.val.start.startPoint.y
    /\ Len(callOut.val.strokes) = 2
    /\ \E i \in 1..2 : callOut.val.strokes[i].tool = "triangle"
    /\ DOMAIN callOut.val.images # {}

\* the corner of the bounds b diagonally opposite the handle
OppositeCorner(handle, b) ==
    Pt(IF handle \in {"tl", "bl"} THEN b.x + b.width ELSE b.x,
       IF handle \in {"tl", "tr"} THEN b.y + b.height ELSE b.y)

\* C17: for a stroke resize from any of the four handles and every final
\* pointer position, the corner of the initial bounding box diagonally
\* opposite the handle is the same corner of the bounding box of the resized
\* strokes, the scale is at least 0.01, the bounding box is the initial one
\* times the scale and every lineWidth is the original one times the scale,
\* so above 0
C17_ResizeKeepsOppositeCorner ==
    (callOut.some /\ callIn.val.action = "resizing-strokes") =>
        LET handle == callIn.val.start.handle
            initial == getBounds(callIn.val.strokes).val
            resized == getBounds(callOut.val.strokes)
            scale == TransformParams(callIn.val.coords, callIn.val.start, callIn.val.action).scale.val
        IN  /\ handle \in {"tl", "tr", "bl", "br"}
            /\ resized.some
            /\ OppositeCorner(handle, resized.val) = OppositeCorner(handle, initial)
            /\ MinScaleInverse * scale.p >= scale.q
            /\ resized.val.width * scale.q = initial.width * scale.p
            /\ resized.val.height * scale.q = initial.height * scale.p
            /\ Len(callOut.val.strokes) = Len(callIn.val.strokes)
            /\ \A i \in 1..Len(callIn.val.strokes) :
                  /\ callOut.val.strokes[i].id = callIn.val.strokes[i].id
                  /\ callOut.val.strokes[i].lineWidth * scale.q = callIn.val.strokes[i].lineWidth * scale.p
                  /\ callOut.val.strokes[i].lineWidth > 0

\* a resize from the top left handle with the pointer on the anchor: the
\* strokes, a circle among them, are at the least scale
C17_ResizedToLeastScale ==
    /\ callOut.some
    /\ callIn.val.action = "resizing-strokes"
    /\ callIn.val.start.handle = "tl"
    /\ callIn.val.coords = OppositeCorner("tl", getBounds(callIn.val.strokes).val)
    /\ Len(callOut.val.strokes) = 2
    /\ \E i \in 1..2 : callOut.val.strokes[i].tool = "circle"
    /\ \A i \in 1..2 : callOut.val.strokes[i].lineWidth * MinScaleInverse = callIn.val.strokes[i].lineWidth

\* the point v turned by q quarter turns about the pivot c (both doubled)
Turned(v, c, q) ==
    Pt(c.x + (v.x - c.x) * CosQ(q) - (v.y - c.y) * SinQ(q),
       c.y + (v.x - c.x) * SinQ(q) + (v.y - c.y) * CosQ(q))

\* the shape of the stroke after is the shape of the stroke before turned by
\* q quarter turns about c
TurnedShape(before, after, c, q) ==
    /\ ShapeVertices(after) = {Turned(v, c, q) : v \in ShapeVertices(before)}
    /\ before.tool = "circle" => (after.tool = "circle" /\ RadiusSq(after) = RadiusSq(before))

\* C18: a rotate gesture moves the selected strokes as a rigid group: for
\* every selected stroke of every tool and every swept angle (here the
\* quarter turns), the vertices of the shape the stroke denotes after the
\* gesture are the rotation about the pivot of those it denoted before
C18_RotationIsRigid ==
    (callOut.some /\ callIn.val.action = "rotating-strokes") =>
        LET q == TransformParams(callIn.val.coords, callIn.val.start, callIn.val.action).rotation
            c == Pt(callIn.val.start.selectionCenter.val.x, callIn.val.start.selectionCenter.val.y)
        IN  /\ Len(callOut.val.strokes) = Len(callIn.val.strokes)
            /\ \A i \in 1..Len(callIn.val.strokes) :
                  TurnedShape(callIn.val.strokes[i], callOut.val.strokes[i], c, q)

\* C19: every committed corner resize of a single image keeps the aspect
\* ratio: for every handle and every final pointer position newWidth /
\* newHeight is the width / height at gesture start, the positions where the
\* minimum size of 20 applies included
C19_ResizeKeepsAspectRatio ==
    (callOut.some /\ callIn.val.action = "resizing-image") =>
        LET before == callIn.val.start.initialTransform.val
            after == callOut.val.images[callIn.val.start.imageId.val]
        IN  after.width * before.height = after.height * before.width

(***************************************************************************)
(* Properties of the geometry library                                      *)
(***************************************************************************)

\* C20: for every tool and every stroke of no or one point, getStrokeBounds
\* returns null or a rectangle and isPointOnStroke returns false, without
\* throwing
C20_ShortStrokesAreSafe ==
    (callOut.some /\ callIn.val.action = "hit-test") =>
        /\ callOut.val.bounds.some =>
              DOMAIN callOut.val.bounds.val = {"x", "y", "width", "height"}
        /\ callOut.val.hit = "false"

(***************************************************************************)
(* C21: ids are unique within a project and within a snapshot              *)
(***************************************************************************)

\* no two entries of a list of strokes or of images have the same id
DistinctIds(items) ==
    \A i, j \in 1..Len(items) : i # j => items[i].id # items[j].id

\* C21: in every reachable state the stroke ids are pairwise distinct and the
\* image ids are pairwise distinct, in every project and in every snapshot of
\* the history, whatever draws, erasures, transforms, uploads, deletes, undos
\* and redos led there.
C21_IdsAreUnique ==
    /\ \A i \in 1..Len(projects) :
          DistinctIds(projects[i].strokes) /\ DistinctIds(projects[i].images)
    /\ \A i \in 1..Len(history) :
          DistinctIds(history[i].strokes) /\ DistinctIds(history[i].images)

\* a snapshot of two strokes and an image is in the history, and an undo has
\* stepped back from the newest snapshot
C21_TwoStrokesAndImageUndone ==
    /\ \E i \in 1..Len(history) :
          Len(history[i].strokes) >= 2 /\ Len(history[i].images) >= 1
    /\ historyIndex < Len(history) - 1
    /\ HasCurrentProject

(***************************************************************************)
(* C22: a click in selection mode picks the topmost object                 *)
(***************************************************************************)

\* handleMouseDown in selection mode reaches its entity hit test with the
\* pointer at coords: no handle and no selection box is under the pointer
EntityClick(coords) ==
    /\ Idle /\ CanEdit /\ HasCurrentProject
    /\ drawOptions.tool = "selection"
    /\ ~ImageHandleHit(coords) /\ ~StrokeHandleHit(coords) /\ ~InSelectionBox(coords)

\* the object painted last among those under coords: the redraw paints the
\* images in list order and then the strokes in list order
PaintTop(coords) ==
    LET strokes == currentProject.strokes
        images == currentProject.images
        onStroke == [i \in 1..Len(strokes) |-> isPointOnStroke(coords, strokes[i], 2 * HitTolerance)]
        inImage == [i \in 1..Len(images) |-> isPointInTransformedRect(coords, images[i].transform)]
    IN  IF TopMost(strokes, onStroke).some
        THEN [isImage |-> FALSE, id |-> TopMost(strokes, onStroke).val.id, some |-> TRUE]
        ELSE IF TopMost(images, inImage).some
        THEN [isImage |-> TRUE, id |-> TopMost(images, inImage).val.id, some |-> TRUE]
        ELSE [isImage |-> FALSE, id |-> 0, some |-> FALSE]

\* the selection after the click is what picking the object top gives: the
\* object alone, the selection as it was when the object was all of it, or
\* (with Shift, Ctrl or Meta) the selection with the object toggled
PickedIs(top) ==
    LET mine == IF top.isImage THEN selectedImageIds ELSE selectedStrokeIds
        mineAfter == IF top.isImage THEN selectedImageIds' ELSE selectedStrokeIds'
        otherAfter == IF top.isImage THEN selectedStrokeIds' ELSE selectedImageIds'
        other == IF top.isImage THEN selectedStrokeIds ELSE selectedImageIds
    IN  \/ mineAfter = {top.id} /\ otherAfter = {}
        \/ /\ other = otherAfter
           /\ mineAfter = IF top.id \in mine THEN mine \ {top.id} ELSE mine \cup {top.id}

\* C22: a click in selection mode outside any handle and outside the selection
\* box that hits an object picks the object painted last among those under
\* the pointer, later list entries on top and strokes above all images.
C22_ClickPicksTopmost ==
    [][\A coords \in DownCoords \cup HandleCoords :
          (/\ EntityClick(coords)
           /\ actionRef' = "dragging"
           /\ transformStartRef'.some
           /\ transformStartRef'.val.startPoint = coords)
          => (PaintTop(coords).some /\ PickedIs(PaintTop(coords)))]_vars

(***************************************************************************)
(* C23: what applyErasure returns for a stroke it cuts and for one it      *)
(* does not                                                                *)
(***************************************************************************)

\* applyErasure cut the stroke: it passed the guards before step 2 and step 2
\* set madeCut
WasCut(stroke) ==
    /\ IsCandidate(stroke, getStrokeBounds(eraserIn.val).val)
    /\ Fragment(stroke, eraserIn.val).madeCut

\* the positions in strokesToAdd of the replacements of the stroke (the
\* strokes of currentStrokes differ in colour)
ReplacementsOf(stroke) ==
    {a \in 1..Len(erasureOut.val.strokesToAdd) : erasureOut.val.strokesToAdd[a].color = stroke.color}

BoxCorners(b) ==
    <<Pt(2 * b.x, 2 * b.y), Pt(2 * (b.x + b.width), 2 * b.y),
      Pt(2 * (b.x + b.width), 2 * (b.y + b.height)), Pt(2 * b.x, 2 * (b.y + b.height))>>

\* after is the closed pen stroke through the corners of the rectangle before,
\* each turned by q quarter turns about c
RectangleTurnedToPen(before, after, c, q) ==
    /\ after.id = before.id
    /\ after.color = before.color
    /\ after.lineWidth = before.lineWidth
    /\ after.tool = "pen"
    /\ Len(after.points) = 5
    /\ \A k \in 1..4 :
          Pt(2 * after.points[k].x, 2 * after.points[k].y)
              = Turned(BoxCorners(getStrokeBounds(before).val)[k], c, q)
    /\ after.points[5] = after.points[1]

\* C24: after a rotate gesture with a non-zero swept angle every selected
\* 2-point rectangle is a stroke with the same id, color and lineWidth, tool
\* 'pen' and exactly 5 points: its four axis-aligned corners each rotated about
\* the pivot, in corner order, then the first corner again; with a zero swept
\* angle it stays the 2-point rectangle it was.
C24_RotatedRectangleIsClosedPen ==
    (callOut.some /\ callIn.val.action = "rotating-strokes") =>
        LET q == TransformParams(callIn.val.coords, callIn.val.start, callIn.val.action).rotation
            c == Pt(callIn.val.start.selectionCenter.val.x, callIn.val.start.selectionCenter.val.y)
        IN  \A i \in 1..Len(callIn.val.strokes) :
               LET before == callIn.val.strokes[i]
               IN  (before.tool = "rectangle" /\ Len(before.points) = 2) =>
                      /\ Cardinality({k \in 1..Len(callOut.val.strokes) :
                                         callOut.val.strokes[k].id = before.id}) = 1
                      /\ LET after == FindStroke(callOut.val.strokes, before.id)
                         IN  IF q # 0 THEN RectangleTurnedToPen(before, after, c, q)
                             ELSE after = before

\* a rectangle selected together with another stroke has been rotated by a
\* quarter turn
C24_RectangleTurnedByQuarter ==
    /\ callOut.some
    /\ callIn.val.action = "rotating-strokes"
    /\ TransformParams(callIn.val.coords, callIn.val.start, callIn.val.action).rotation % 4 = 1
    /\ Len(callIn.val.strokes) = 2
    /\ \E i \in 1..2 : callIn.val.strokes[i].tool = "rectangle"
    /\ \E k \in 1..2 : callOut.val.strokes[k].id = 4 /\ Len(callOut.val.strokes[k].points) = 5

(***************************************************************************)
(* C25: a corner resize of an image keeps the opposite corner in place     *)
(***************************************************************************)

\* twice the world position of the corner of the image opposite the handle
OppositeImageCorner(transform, handle) ==
    LET lx == IF Includes(handle, "l") THEN transform.width ELSE -transform.width
        ly == IF Includes(handle, "t") THEN transform.height ELSE -transform.height
        cos == CosQ(transform.rotation)
        sin == SinQ(transform.rotation)
    IN  Pt(2 * transform.x + lx * cos - ly * sin, 2 * transform.y + lx * sin + ly * cos)

\* C25: for every corner resize of a single image (handles tl, tr, bl, br),
\* every rotation of the image and every final pointer position, those where
\* the minimum size applies included, the world position of the corner
\* opposite the dragged handle is after the resize what it was at gesture start.
C25_ResizeKeepsOppositeImageCorner ==
    (callOut.some /\ callIn.val.action = "resizing-image") =>
        LET before == callIn.val.start.initialTransform.val
            after == callOut.val.images[callIn.val.start.imageId.val]
        IN  /\ after.rotation = before.rotation
            /\ OppositeImageCorner(after, callIn.val.start.handle)
                   = OppositeImageCorner(before, callIn.val.start.handle)

\* a resize of the turned image that the minimum size stops: the pointer asks
\* for less than 20 and the image ends 20 wide and smaller than it was
C25_ResizedToMinimumTurned ==
    /\ callOut.some
    /\ callIn.val.action = "resizing-image"
    /\ callIn.val.start.initialTransform.val.rotation = 1
    /\ callIn.val.start.initialTransform.val.width = 40
    /\ ProposedSize(callIn.val.start.initialTransform.val, callIn.val.start.handle,
                    callIn.val.start.startPoint, callIn.val.coords).w < MinImageSize
    /\ callOut.val.images[callIn.val.start.imageId.val].width = MinImageSize

(***************************************************************************)
(* C26: which transform gesture a selection lets start                     *)
(***************************************************************************)

\* C26: an image resize or image rotate gesture starts only when the
\* selection is exactly one image and no stroke, and a stroke resize or rotate
\* gesture starts only when the selection holds strokes and no image; with any
\* other non-empty selection (several images, or images together with
\* strokes) the only transform gesture that starts is a drag.
C26_GestureFitsSelection ==
    [][(actionRef = "none" /\ actionRef' # "none") =>
          /\ actionRef' \in {"resizing-image", "rotating-image"} =>
                (Cardinality(selectedImageIds) = 1 /\ selectedStrokeIds = {})
          /\ actionRef' \in {"resizing-strokes", "rotating-strokes"} =>
                (selectedStrokeIds # {} /\ selectedImageIds = {})
          /\ (hasSelection /\ (Cardinality(selectedImageIds) > 1
                               \/ (selectedImageIds # {} /\ selectedStrokeIds # {}))
                /\ actionRef' \in (StrokeActions \cup ImageActions \cup {"dragging"})) =>
                actionRef' = "dragging"]_vars

\* a drag of a selection of an image together with a stroke has started inside
\* the selection box
C26_MixedSelectionDragged ==
    /\ actionRef = "dragging"
    /\ selectedImageIds # {}
    /\ selectedStrokeIds # {}
    /\ transformStartRef.some
    /\ transformStartRef.val.imageIds = Some(selectedImageIds)
    /\ transformStartRef.val.strokeIds = Some(selectedStrokeIds)

(***************************************************************************)
(* C27: the history index stays inside the history                         *)
(***************************************************************************)

\* C27: in every reachable state 0 <= historyIndex <= history.length - 1, also
\* when the completion callback of an image upload runs after other commits
\* or undos happened since the upload was started.
C27_HistoryIndexInRange ==
    0 <= historyIndex /\ historyIndex <= Len(history) - 1

(***************************************************************************)
(* C28: which gesture ends commit                                          *)
(***************************************************************************)

\* a dragging, rotating-strokes or resizing-strokes gesture ends in this step
StrokeGestureEnds == actionRef \in StrokeActions /\ actionRef' = "none"

\* a drawing gesture ends in this step with an eraser stroke that cuts nothing
\* or with a pen stroke of a single point
IdleDrawingEnds ==
    /\ actionRef = "drawing" /\ actionRef' = "none"
    /\ HasCurrentProject
    /\ currentStrokeRef.some
    /\ IF currentStrokeRef.val.tool = "eraser"
       THEN LET erasure == applyErasure(currentStrokeRef.val, currentHistoryState.strokes, UsedIds)
            IN  erasure.strokesToDelete = {} /\ erasure.strokesToAdd = <<>>
       ELSE currentStrokeRef.val.tool = "pen" /\ Len(currentStrokeRef.val.points) < 2

\* the step appends one snapshot, that of the content it leaves, to the history
\* up to the index and leaves nothing to redo
CommitsOneSnapshot ==
    /\ Len(history') = Min(historyIndex + 1, Len(history)) + 1
    /\ SubSeq(history', 1, Len(history') - 1) = SubSeq(history, 1, Min(historyIndex + 1, Len(history)))
    /\ history'[Len(history')] = Snapshot(currentProject.strokes, currentProject.images)'
    /\ historyIndex' = historyIndex + 1
    /\ Len(history') <= historyIndex' + 1

EraserCommits ==
    /\ actionRef = "drawing" /\ actionRef' = "none"
    /\ HasCurrentProject
    /\ currentStrokeRef.some
    /\ currentStrokeRef.val.tool = "eraser"
    /\ history' # history

\* after is before without the strokes of before that are gone, in their
\* order, followed by pen strokes with new ids, which are there only when a
\* stroke of before is gone
KeptThenFragments(before, after) ==
    LET cut == IdsOfStrokes(before) \ IdsOfStrokes(after)
        kept == SeqFilterIds(before, cut)
    IN  /\ Len(after) >= Len(kept)
        /\ SubSeq(after, 1, Len(kept)) = kept
        /\ \A k \in (Len(kept) + 1)..Len(after) :
              /\ after[k].id \notin IdsOfStrokes(before)
              /\ after[k].tool = "pen"
              /\ \E i \in 1..Len(before) :
                    /\ before[i].id \in cut
                    /\ before[i].color = after[k].color
                    /\ before[i].lineWidth = after[k].lineWidth

\* C29: when an eraser gesture commits, the strokes that were not cut keep
\* their identity and their relative order, all replacement fragments are
\* appended after them, wherever the cut stroke was in the order, and the
\* image list is unchanged: this of the project and of the snapshot the commit
\* appends to the history.
C29_EraserCommitKeepsTheRest ==
    [][EraserCommits =>
          /\ KeptThenFragments(currentProject.strokes, currentProject.strokes')
          /\ KeptThenFragments(currentProject.strokes, history'[Len(history')].strokes)
          /\ \A i \in 1..Len(currentProject.strokes) :
                currentProject.strokes[i].id
                    \notin applyErasure(currentStrokeRef.val, currentProject.strokes, UsedIds).strokesToDelete
                => currentProject.strokes[i] \in Range(currentProject.strokes')
          /\ currentProject.images' = currentProject.images
          /\ history'[Len(history')].images = currentProject.images]_vars

(***************************************************************************)
(* C30: what the commit of a transform gesture leaves alone                *)
(***************************************************************************)

\* a transform gesture ends in this step
TransformEnds == Transforming /\ actionRef' = "none"

\* the ids of the strokes and of the images the gesture in progress acts on
TargetStrokeIds ==
    IF actionRef \in StrokeActions /\ transformStartRef.val.strokeIds.some
    THEN transformStartRef.val.strokeIds.val ELSE {}

TargetImageIds ==
    IF actionRef = "dragging" /\ transformStartRef.val.imageIds.some
    THEN transformStartRef.val.imageIds.val
    ELSE IF actionRef \in ImageActions /\ transformStartRef.val.imageId.some
    THEN {transformStartRef.val.imageId.val} ELSE {}

\* after has the entries of before, with their ids and in their order, and
\* those whose id is not among targets are as they were
OnlyTargetsChanged(before, after, targets) ==
    /\ Len(after) = Len(before)
    /\ \A i \in 1..Len(before) :
          /\ after[i].id = before[i].id
          /\ before[i].id \notin targets => after[i] = before[i]

\* C30: the commit of a transform gesture changes only its targets: every
\* stroke and image whose id is not in the target sets of the gesture is
\* identical before and after; stroke gestures (rotate, resize) leave all
\* images unchanged and image gestures leave all strokes unchanged; the
\* number, ids and list order of strokes and of images are preserved.
C30_TransformChangesOnlyTargets ==
    [][TransformEnds =>
          /\ OnlyTargetsChanged(currentProject.strokes, currentProject.strokes', TargetStrokeIds)
          /\ OnlyTargetsChanged(currentProject.images, currentProject.images', TargetImageIds)
          /\ actionRef \in {"rotating-strokes", "resizing-strokes"} =>
                currentProject.images' = currentProject.images
          /\ actionRef \in ImageActions => currentProject.strokes' = currentProject.strokes]_vars

\* a gesture on the image of a project that also has a stroke has been
\* committed: the newest snapshot differs from its predecessor in the
\* transform of the image and in nothing else
C30_ImageChangedBesideStroke ==
    /\ actionRef = "none"
    /\ HasCurrentProject
    /\ Len(history) >= 2
    /\ historyIndex = Len(history) - 1
    /\ history[Len(history)] = Snapshot(currentProject.strokes, currentProject.images)
    /\ history[Len(history)].strokes # <<>>
    /\ history[Len(history)].strokes = history[Len(history) - 1].strokes
    /\ Len(history[Len(history)].images) = 1
    /\ Len(history[Len(history) - 1].images) = 1
    /\ history[Len(history)].images[1].id = history[Len(history) - 1].images[1].id
    /\ history[Len(history)].images[1].transform # history[Len(history) - 1].images[1].transform

====
